---- MODULE Spec2Model ----
(***************************************************************************)
(* Model of the salazzle reference-data library (src/src/typing.rs,        *)
(* src/src/stat_stage.rs, src/src/species.rs, src/src/nature.rs).          *)
(*                                                                         *)
(* The library is a set of pure functions over constant data.  Each public *)
(* function is an operator, computed as the code computes it, and each     *)
(* call of a public function is an action that records the call (op, args) *)
(* and what it returned (result).  A panic (a failed unwrap, an index out  *)
(* of bounds) is the value Panic.  The library keeps no state between      *)
(* calls, so a behaviour is one call from the initial state: what a call   *)
(* returns does not depend on the calls made before it.                    *)
(*                                                                         *)
(* f32 values are modelled as exact rationals <<numerator, denominator>>   *)
(* in lowest terms.  Every value the modelled code computes is a dyadic    *)
(* rational between 1/16 and 16 (or a difference of two such), which f32   *)
(* represents exactly, so f32 arithmetic on them is exact arithmetic.      *)
(***************************************************************************)
EXTENDS Integers, Sequences, FiniteSets, TLC

VARIABLES op, args, result

vars == <<op, args, result>>

\* ------------------------------------------------------------------------
\* Exact arithmetic standing for f32

RECURSIVE Gcd(_, _)
Gcd(a, b) == IF b = 0 THEN a ELSE Gcd(b, a % b)

Abs(n) == IF n < 0 THEN -n ELSE n

Norm(x) ==
    LET g == Gcd(Abs(x[1]), x[2])
    IN  <<x[1] \div g, x[2] \div g>>

FMul(x, y) == Norm(<<x[1] * y[1], x[2] * y[2]>>)

FSub(x, y) == Norm(<<x[1] * y[2] - y[1] * x[2], x[2] * y[2]>>)

FAbs(x) == <<Abs(x[1]), x[2]>>

FLeq(x, y) == x[1] * y[2] <= y[1] * x[2]

\* std::f32::EPSILON = 2^-23
EPSILON == <<1, 8388608>>

\* ------------------------------------------------------------------------
\* Multiplier

Immunity == "Immunity"
DoubleResistance == "DoubleResistance"
Resistance == "Resistance"
Regular == "Regular"
Weakness == "Weakness"
DoubleWeakness == "DoubleWeakness"

Multiplier ==
    {Immunity, DoubleResistance, Resistance, Regular, Weakness, DoubleWeakness}

\* the variants of enum Multiplier, in declaration order
MultiplierDecl ==
    <<Immunity, DoubleResistance, Resistance, Regular, Weakness, DoubleWeakness>>

\* the position of a variant in a declaration order
variant_index(decl, v) == CHOOSE i \in DOMAIN decl : decl[i] = v

\* < with the variants taken in the order of the arms of into
multiplier_lt_arm_order(self, other) ==
    LET arms == <<Regular, Weakness, DoubleWeakness, Resistance,
                  DoubleResistance, Immunity>>
    IN  variant_index(arms, self) < variant_index(arms, other)

\* derive(PartialOrd, Ord) on a fieldless enum: the order of the variants is
\* the order of their declaration
multiplier_lt(self, other) ==
    variant_index(MultiplierDecl, self) < variant_index(MultiplierDecl, other)

InvalidNumericMultiplierError == "InvalidNumericMultiplierError"

\* A panic, as the outcome of a call that returns a Multiplier
Panic == "panic"

\* A panic, as the outcome of a call that returns a Vec: a sequence no Vec of
\* Typing values is equal to
PanicVec == <<Panic>>

\* Result::unwrap: the Ok value, or a panic on an Err
unwrap(r, err) == IF r = err THEN Panic ELSE r

\* from_num_multiplier with the differences compared without .abs()
from_num_multiplier_no_abs(multiplier) ==
    IF FLeq(FSub(multiplier, <<0, 1>>), EPSILON) THEN Immunity
    ELSE IF FLeq(FSub(multiplier, <<1, 4>>), EPSILON) THEN DoubleResistance
    ELSE IF FLeq(FSub(multiplier, <<1, 2>>), EPSILON) THEN Resistance
    ELSE IF FLeq(FSub(multiplier, <<1, 1>>), EPSILON) THEN Regular
    ELSE IF FLeq(FSub(multiplier, <<2, 1>>), EPSILON) THEN Weakness
    ELSE IF FLeq(FSub(multiplier, <<4, 1>>), EPSILON) THEN DoubleWeakness
    ELSE InvalidNumericMultiplierError

from_num_multiplier(multiplier) ==
    IF FLeq(FAbs(FSub(multiplier, <<0, 1>>)), EPSILON) THEN Immunity
    ELSE IF FLeq(FAbs(FSub(multiplier, <<1, 4>>)), EPSILON) THEN DoubleResistance
    ELSE IF FLeq(FAbs(FSub(multiplier, <<1, 2>>)), EPSILON) THEN Resistance
    ELSE IF FLeq(FAbs(FSub(multiplier, <<1, 1>>)), EPSILON) THEN Regular
    ELSE IF FLeq(FAbs(FSub(multiplier, <<2, 1>>)), EPSILON) THEN Weakness
    ELSE IF FLeq(FAbs(FSub(multiplier, <<4, 1>>)), EPSILON) THEN DoubleWeakness
    ELSE InvalidNumericMultiplierError

\* into with the values of Resistance and DoubleResistance exchanged
into_f32_exchanged(self) ==
    CASE self = Regular -> <<1, 1>>
      [] self = Weakness -> <<2, 1>>
      [] self = DoubleWeakness -> <<4, 1>>
      [] self = Resistance -> <<1, 4>>
      [] self = DoubleResistance -> <<1, 2>>
      [] self = Immunity -> <<0, 1>>

into_f32(self) ==
    CASE self = Regular -> <<1, 1>>
      [] self = Weakness -> <<2, 1>>
      [] self = DoubleWeakness -> <<4, 1>>
      [] self = Resistance -> <<1, 2>>
      [] self = DoubleResistance -> <<1, 4>>
      [] self = Immunity -> <<0, 1>>

\* mul with the right operand read from self instead of _rhs
mul_self_twice(self, rhs) ==
    LET mul1 == into_f32(self)
        mul2 == into_f32(self)
        num == FMul(mul1, mul2)
    IN  IF FLeq(FAbs(FSub(num, <<1, 8>>)), EPSILON) THEN DoubleResistance
        ELSE IF FLeq(FAbs(FSub(num, <<8, 1>>)), EPSILON) THEN DoubleWeakness
        ELSE unwrap(from_num_multiplier(num), InvalidNumericMultiplierError)

\* mul without the two clamping tests
mul_without_clamp(self, rhs) ==
    LET mul1 == into_f32(self)
        mul2 == into_f32(rhs)
        num == FMul(mul1, mul2)
    IN  unwrap(from_num_multiplier(num), InvalidNumericMultiplierError)

mul(self, rhs) ==
    LET mul1 == into_f32(self)
        mul2 == into_f32(rhs)
        num == FMul(mul1, mul2)
    IN  IF FLeq(FAbs(FSub(num, <<1, 8>>)), EPSILON) THEN DoubleResistance
        ELSE IF FLeq(FAbs(FSub(num, <<8, 1>>)), EPSILON) THEN DoubleWeakness
        ELSE unwrap(from_num_multiplier(num), InvalidNumericMultiplierError)

\* (a * b) * c: the panic of a * b ends the evaluation
mul_left(a, b, c) ==
    LET ab == mul(a, b)
    IN  IF ab = Panic THEN Panic ELSE mul(ab, c)

\* a * (b * c): the panic of b * c ends the evaluation
mul_right(a, b, c) ==
    LET bc == mul(b, c)
    IN  IF bc = Panic THEN Panic ELSE mul(a, bc)

\* ------------------------------------------------------------------------
\* The type chart

TYPE_MULTIPLIERS ==
    LET z == <<0, 1>>
        h == <<1, 2>>
        o == <<1, 1>>
        t == <<2, 1>>
    IN  <<
        o, o, o, o, o, h, o, z, h, o, o, o, o, o, o, o, o, o,  \* Normal
        t, o, h, h, o, t, h, z, t, o, o, o, o, h, t, o, t, h,  \* Fighting
        o, t, o, o, o, h, t, o, h, o, o, t, h, o, o, o, o, o,  \* Flying
        o, o, o, h, h, h, o, h, z, o, o, t, o, o, o, o, o, t,  \* Poison
        o, o, z, t, o, t, h, o, t, t, o, h, t, o, o, o, o, o,  \* Ground
        o, h, t, o, h, o, t, o, h, t, o, o, o, o, t, o, o, o,  \* Rock
        o, h, h, h, o, o, o, h, h, h, o, t, o, t, o, o, t, h,  \* Bug
        z, o, o, o, o, o, o, t, o, o, o, o, o, t, o, o, h, o,  \* Ghost
        o, o, o, o, o, t, o, o, h, h, h, o, h, o, t, o, o, t,  \* Steel
        o, o, o, o, o, h, t, o, t, h, h, t, o, o, t, h, o, o,  \* Fire
        o, o, o, o, t, t, o, o, o, t, h, h, o, o, o, h, o, o,  \* Water
        o, o, h, h, t, t, h, o, h, h, t, h, o, o, o, h, o, o,  \* Grass
        o, o, t, o, z, o, o, o, o, o, t, h, h, o, o, h, o, o,  \* Electric
        o, t, o, t, o, o, o, o, h, o, o, o, o, h, o, o, z, o,  \* Psychic
        o, o, t, o, t, o, o, o, h, h, h, t, o, o, h, t, o, o,  \* Ice
        o, o, o, o, o, o, o, o, h, o, o, o, o, o, o, t, o, z,  \* Dragon
        o, h, o, o, o, o, o, t, o, o, o, o, o, t, o, o, h, h,  \* Dark
        o, t, o, h, o, o, o, o, h, h, o, o, o, o, o, t, t, o   \* Fairy
    >>

\* the attacker named in the comment that ends each row of TYPE_MULTIPLIERS
TYPE_MULTIPLIERS_ROWS ==
    <<"Normal", "Fighting", "Flying", "Poison", "Ground", "Rock", "Bug", "Ghost",
      "Steel", "Fire", "Water", "Grass", "Electric", "Psychic", "Ice", "Dragon",
      "Dark", "Fairy">>

\* ------------------------------------------------------------------------
\* Typing

\* the variants of enum Typing, in declaration order: variant i (1-based) has
\* the discriminant i - 1
TypingDecl ==
    <<"Normal", "Fighting", "Flying", "Poison", "Ground", "Rock", "Bug", "Ghost",
      "Steel", "Fire", "Water", "Grass", "Electric", "Psychic", "Ice", "Dragon",
      "Dark", "Fairy">>

Typing ==
    {"Normal", "Fighting", "Flying", "Poison", "Ground", "Rock", "Bug", "Ghost",
     "Steel", "Fire", "Water", "Grass", "Electric", "Psychic", "Ice", "Dragon",
     "Dark", "Fairy"}

InvalidTypingCodeError == "InvalidTypingCodeError"

\* try_from with the arm of code 16 repeated for code 17
try_from_repeated_arm(code) ==
    CASE code = 0 -> "Normal"
      [] code = 1 -> "Fighting"
      [] code = 2 -> "Flying"
      [] code = 3 -> "Poison"
      [] code = 4 -> "Ground"
      [] code = 5 -> "Rock"
      [] code = 6 -> "Bug"
      [] code = 7 -> "Ghost"
      [] code = 8 -> "Steel"
      [] code = 9 -> "Fire"
      [] code = 10 -> "Water"
      [] code = 11 -> "Grass"
      [] code = 12 -> "Electric"
      [] code = 13 -> "Psychic"
      [] code = 14 -> "Ice"
      [] code = 15 -> "Dragon"
      [] code = 16 -> "Dark"
      [] code = 17 -> "Dark"
      [] OTHER -> InvalidTypingCodeError

try_from(code) ==
    CASE code = 0 -> "Normal"
      [] code = 1 -> "Fighting"
      [] code = 2 -> "Flying"
      [] code = 3 -> "Poison"
      [] code = 4 -> "Ground"
      [] code = 5 -> "Rock"
      [] code = 6 -> "Bug"
      [] code = 7 -> "Ghost"
      [] code = 8 -> "Steel"
      [] code = 9 -> "Fire"
      [] code = 10 -> "Water"
      [] code = 11 -> "Grass"
      [] code = 12 -> "Electric"
      [] code = 13 -> "Psychic"
      [] code = 14 -> "Ice"
      [] code = 15 -> "Dragon"
      [] code = 16 -> "Dark"
      [] code = 17 -> "Fairy"
      [] OTHER -> InvalidTypingCodeError

\* all_typings over the range 0..17, which ends at 16
all_typings_short_range ==
    IF \E x \in 0..16 : try_from(x) = InvalidTypingCodeError
    THEN PanicVec
    ELSE [i \in 1..17 |-> try_from(i - 1)]

\* (0..18).map(|x| Typing::try_from(x).unwrap()).collect(): element i of the
\* Vec (0-based) is element i + 1 of the sequence
all_typings ==
    IF \E x \in 0..17 : try_from(x) = InvalidTypingCodeError
    THEN PanicVec
    ELSE [i \in 1..18 |-> try_from(i - 1)]

num_code(self) ==
    CASE self = "Normal" -> 0
      [] self = "Fighting" -> 1
      [] self = "Flying" -> 2
      [] self = "Poison" -> 3
      [] self = "Ground" -> 4
      [] self = "Rock" -> 5
      [] self = "Bug" -> 6
      [] self = "Ghost" -> 7
      [] self = "Steel" -> 8
      [] self = "Fire" -> 9
      [] self = "Water" -> 10
      [] self = "Grass" -> 11
      [] self = "Electric" -> 12
      [] self = "Psychic" -> 13
      [] self = "Ice" -> 14
      [] self = "Dragon" -> 15
      [] self = "Dark" -> 16
      [] self = "Fairy" -> 17

\* the index into the flattened matrix, 0-based as in the code: element index
\* of the array is element index + 1 of the sequence; an index outside the
\* array panics
matrix_index(self, other) == (num_code(self) * 18) + num_code(other)

\* offense_multiplier with the rows and columns of the matrix exchanged
offense_multiplier_transposed(self, other) ==
    LET index == matrix_index(other, self)
    IN  IF index \notin 0..(Len(TYPE_MULTIPLIERS) - 1)
        THEN Panic
        ELSE unwrap(from_num_multiplier(TYPE_MULTIPLIERS[index + 1]),
                    InvalidNumericMultiplierError)

\* offense_multiplier with the codes taken to start at 1
offense_multiplier_one_based(self, other) ==
    LET index == ((num_code(self) + 1) * 18) + (num_code(other) + 1)
    IN  IF index \notin 0..(Len(TYPE_MULTIPLIERS) - 1)
        THEN Panic
        ELSE unwrap(from_num_multiplier(TYPE_MULTIPLIERS[index + 1]),
                    InvalidNumericMultiplierError)

offense_multiplier(self, other) ==
    LET index == matrix_index(self, other)
    IN  IF index \notin 0..(Len(TYPE_MULTIPLIERS) - 1)
        THEN Panic
        ELSE unwrap(from_num_multiplier(TYPE_MULTIPLIERS[index + 1]),
                    InvalidNumericMultiplierError)

\* defense_multiplier without the exchange of attacker and defender
defense_multiplier_same_order(self, other) == offense_multiplier(self, other)

defense_multiplier(self, other) == offense_multiplier(other, self)

\* combined_effectiveness with the first defending typing read twice
combined_effectiveness_first_twice(self, other) ==
    LET typing1 == other[1]
        m1 == offense_multiplier(self, typing1)
    IN  IF m1 = Panic THEN Panic ELSE mul(m1, m1)

combined_effectiveness(self, other) ==
    LET typing1 == other[1]
        typing2 == other[2]
        m1 == offense_multiplier(self, typing1)
        m2 == offense_multiplier(self, typing2)
    IN  IF m1 = Panic \/ m2 = Panic THEN Panic ELSE mul(m1, m2)

\* The eight filters over all_typings().  A panic of all_typings or of the
\* closure is a panic of the filter.

\* weak_to with the closure of weak_against
weak_to_by_row(self) ==
    IF all_typings = PanicVec THEN PanicVec
    ELSE IF \E i \in DOMAIN all_typings : offense_multiplier(self, all_typings[i]) = Panic
    THEN PanicVec
    ELSE SelectSeq(all_typings, LAMBDA t : offense_multiplier(self, t) = Weakness)

weak_to(self) ==
    IF all_typings = PanicVec THEN PanicVec
    ELSE IF \E i \in DOMAIN all_typings : offense_multiplier(all_typings[i], self) = Panic
    THEN PanicVec
    ELSE SelectSeq(all_typings, LAMBDA t : offense_multiplier(t, self) = Weakness)

resistant_to(self) ==
    IF all_typings = PanicVec THEN PanicVec
    ELSE IF \E i \in DOMAIN all_typings : offense_multiplier(all_typings[i], self) = Panic
    THEN PanicVec
    ELSE SelectSeq(all_typings, LAMBDA t : offense_multiplier(t, self) = Resistance)

neutral_to(self) ==
    IF all_typings = PanicVec THEN PanicVec
    ELSE IF \E i \in DOMAIN all_typings : offense_multiplier(all_typings[i], self) = Panic
    THEN PanicVec
    ELSE SelectSeq(all_typings, LAMBDA t : offense_multiplier(t, self) = Regular)

\* immune_to comparing with the variant neutral_to compares with
immune_to_regular(self) ==
    IF all_typings = PanicVec THEN PanicVec
    ELSE IF \E i \in DOMAIN all_typings : offense_multiplier(all_typings[i], self) = Panic
    THEN PanicVec
    ELSE SelectSeq(all_typings, LAMBDA t : offense_multiplier(t, self) = Regular)

immune_to(self) ==
    IF all_typings = PanicVec THEN PanicVec
    ELSE IF \E i \in DOMAIN all_typings : offense_multiplier(all_typings[i], self) = Panic
    THEN PanicVec
    ELSE SelectSeq(all_typings, LAMBDA t : offense_multiplier(t, self) = Immunity)

\* weak_against with the closure of weak_to
weak_against_by_column(self) ==
    IF all_typings = PanicVec THEN PanicVec
    ELSE IF \E i \in DOMAIN all_typings : offense_multiplier(all_typings[i], self) = Panic
    THEN PanicVec
    ELSE SelectSeq(all_typings, LAMBDA t : offense_multiplier(t, self) = Weakness)

weak_against(self) ==
    IF all_typings = PanicVec THEN PanicVec
    ELSE IF \E i \in DOMAIN all_typings : offense_multiplier(self, all_typings[i]) = Panic
    THEN PanicVec
    ELSE SelectSeq(all_typings, LAMBDA t : offense_multiplier(self, t) = Weakness)

\* resistant_against with the closure of resistant_to
resistant_against_by_column(self) ==
    IF all_typings = PanicVec THEN PanicVec
    ELSE IF \E i \in DOMAIN all_typings : offense_multiplier(all_typings[i], self) = Panic
    THEN PanicVec
    ELSE SelectSeq(all_typings, LAMBDA t : offense_multiplier(t, self) = Resistance)

resistant_against(self) ==
    IF all_typings = PanicVec THEN PanicVec
    ELSE IF \E i \in DOMAIN all_typings : offense_multiplier(self, all_typings[i]) = Panic
    THEN PanicVec
    ELSE SelectSeq(all_typings, LAMBDA t : offense_multiplier(self, t) = Resistance)

neutral_against(self) ==
    IF all_typings = PanicVec THEN PanicVec
    ELSE IF \E i \in DOMAIN all_typings : offense_multiplier(self, all_typings[i]) = Panic
    THEN PanicVec
    ELSE SelectSeq(all_typings, LAMBDA t : offense_multiplier(self, t) = Regular)

immune_against(self) ==
    IF all_typings = PanicVec THEN PanicVec
    ELSE IF \E i \in DOMAIN all_typings : offense_multiplier(self, all_typings[i]) = Panic
    THEN PanicVec
    ELSE SelectSeq(all_typings, LAMBDA t : offense_multiplier(self, t) = Immunity)

\* ------------------------------------------------------------------------
\* StatStage (src/src/stat_stage.rs)

\* the variants of enum StatStage, in declaration order
StatStageDecl ==
    <<"N6", "N5", "N4", "N3", "N2", "N1", "Z0", "P1", "P2", "P3", "P4", "P5", "P6">>

StatStage == {StatStageDecl[i] : i \in DOMAIN StatStageDecl}

\* self as i8: N6 is declared as -6 and each later variant is one more than
\* the variant before it
as_i8(self) == (-6) + (variant_index(StatStageDecl, self) - 1)

\* self < other under derive(PartialOrd, Ord): the order of the discriminants
stage_lt(self, other) == as_i8(self) < as_i8(other)

\* numer / denom in f64, for integer-valued numer and denom.  A quotient is
\* the exact rational <<n, d>> in lowest terms with d > 0: f64 rounds the
\* quotient to nearest, which keeps equal quotients equal and keeps the order
\* of the quotients compared here, whose denominators are at most 9.  A
\* division by zero is no panic in f64: x / 0.0 is <<1, 0>> (+inf) for x > 0,
\* <<-1, 0>> (-inf) for x < 0 and <<0, 0>> (NaN) for x = 0.
f64_div(numer, denom) ==
    IF denom = 0
    THEN <<(IF numer > 0 THEN 1 ELSE IF numer < 0 THEN -1 ELSE 0), 0>>
    ELSE IF denom < 0 THEN Norm(<<0 - numer, 0 - denom>>)
    ELSE Norm(<<numer, denom>>)

normal_numer(self) == IF stage_lt(self, "Z0") THEN 2 ELSE 2 + as_i8(self)

\* normal_multiplier's denominator with the stage subtracted, not added
normal_denom_subtracting(self) ==
    IF stage_lt(self, "Z0") THEN 2 - as_i8(self) ELSE 2

normal_denom(self) == IF stage_lt(self, "Z0") THEN 2 + as_i8(self) ELSE 2

\* normal_multiplier dividing the denominator by the numerator
normal_multiplier_inverted(self) ==
    f64_div(normal_denom(self), normal_numer(self))

normal_multiplier(self) == f64_div(normal_numer(self), normal_denom(self))

accuracy_numer(self) == IF stage_lt(self, "Z0") THEN 3 ELSE 3 + as_i8(self)

accuracy_denom(self) == IF stage_lt(self, "Z0") THEN 3 + as_i8(self) ELSE 3

accuracy_multiplier(self) == f64_div(accuracy_numer(self), accuracy_denom(self))

\* The sum of two i8 values outside -128..127 is an overflow: a panic in a
\* debug build (a release build wraps).  The match arm _ => panic!() is the
\* OTHER arm.
\* add with the two saturation tests made strict
add_strict_bounds(self, other) ==
    LET num == as_i8(self) + as_i8(other)
    IN  IF num \notin (-128)..127 THEN Panic
        ELSE IF num < (-6) THEN "N6"
        ELSE IF num > 6 THEN "P6"
        ELSE CASE
                  num = (-5) -> "N5"
               [] num = (-4) -> "N4"
               [] num = (-3) -> "N3"
               [] num = (-2) -> "N2"
               [] num = (-1) -> "N1"
               [] num = 0 -> "Z0"
               [] num = 1 -> "P1"
               [] num = 2 -> "P2"
               [] num = 3 -> "P3"
               [] num = 4 -> "P4"
               [] num = 5 -> "P5"
               [] OTHER -> Panic

add(self, other) ==
    LET num == as_i8(self) + as_i8(other)
    IN  IF num \notin (-128)..127 THEN Panic
        ELSE IF num <= (-6) THEN "N6"
        ELSE IF num >= 6 THEN "P6"
        ELSE CASE
                  num = (-5) -> "N5"
               [] num = (-4) -> "N4"
               [] num = (-3) -> "N3"
               [] num = (-2) -> "N2"
               [] num = (-1) -> "N1"
               [] num = 0 -> "Z0"
               [] num = 1 -> "P1"
               [] num = 2 -> "P2"
               [] num = 3 -> "P3"
               [] num = 4 -> "P4"
               [] num = 5 -> "P5"
               [] OTHER -> Panic

\* (a + b) + c: the panic of a + b ends the evaluation
add_left(a, b, c) ==
    LET ab == add(a, b)
    IN  IF ab = Panic THEN Panic ELSE add(ab, c)

\* a + (b + c): the panic of b + c ends the evaluation
add_right(a, b, c) ==
    LET bc == add(b, c)
    IN  IF bc = Panic THEN Panic ELSE add(a, bc)

\* ------------------------------------------------------------------------
\* Species (src/src/species.rs)

\* the variants of each forme enum, in declaration order
FormeEnums ==
    [
      CastformForme |->
          <<"Normal", "Sunny", "Rainy", "Snowy">>,
      DeoxysForme |->
          <<"Normal", "Attack", "Defense", "Speed">>,
      WormadamForme |->
          <<"Plant", "Sandy", "Trash">>,
      RotomForme |->
          <<"Ghost", "Heat", "Wash", "Frost", "Fan", "Mow">>,
      GiratinaForme |->
          <<"Altered", "Origin">>,
      ArceusForme |->
          <<"Normal", "Fire", "Water", "Electric", "Grass", "Ice", "Fighting",
          "Poison", "Ground", "Flying", "Psychic", "Bug", "Rock", "Ghost",
          "Dragon", "Dark", "Steel", "Fairy">>,
      DarmanitanForme |->
          <<"Standard", "ZenMode">>,
      KyuremForme |->
          <<"Normal", "Black", "White">>,
      MeloettaForme |->
          <<"Aria", "Pirouette">>,
      GreninjaForme |->
          <<"Normal", "BattleBond", "Ash">>,
      GourgeistForme |->
          <<"Small", "Average", "Large", "Super">>,
      ZygardeForme |->
          <<"TenPercent", "FiftyPercent", "Complete">>,
      HoopaForme |->
          <<"Confined", "Unbound">>,
      OricorioForme |->
          <<"Baile", "PomPom", "Pau", "Sensu">>,
      LycanrocForme |->
          <<"Midday", "Midnight", "Dusk">>,
      WishiwashiForme |->
          <<"School", "Solo">>,
      ShayminForme |->
          <<"Land", "Sky">>,
      SilvallyForme |->
          <<"Normal", "Fire", "Water", "Electric", "Grass", "Ice", "Fighting",
          "Poison", "Ground", "Flying", "Psychic", "Bug", "Rock", "Ghost",
          "Dragon", "Dark", "Steel", "Fairy">>,
      MiniorForme |->
          <<"Meteor", "Core">>,
      MimikyuForme |->
          <<"Disguised", "Busted">>,
      NecrozmaForme |->
          <<"Normal", "DuskMane", "DuskWings", "Ultra">>,
      AlolaForme |->
          <<"Normal", "Alola">>,
      MegaEvolution |->
          <<"Normal", "Mega">>,
      XYMegaEvolution |->
          <<"Normal", "MegaX", "MegaY">>,
      PrimalReversion |->
          <<"Normal", "Primal">>,
      GenieForme |->
          <<"Incarnate", "Therian">>,
      AegislashForme |->
          <<"Sword", "Shield">>
    ]

\* the payload type of a variant of Species declared without a payload, and
\* the payload of its value
NoPayload == "none"

\* the variants of enum Species in declaration order, each with the type of
\* the payload it is declared with
SpeciesDecl ==
    <<
      <<"Bulbasaur", NoPayload>>, <<"Ivysaur", NoPayload>>,
      <<"Venusaur", "MegaEvolution">>, <<"Charmander", NoPayload>>,
      <<"Charmeleon", NoPayload>>, <<"Charizard", "XYMegaEvolution">>,
      <<"Squirtle", NoPayload>>, <<"Wartortle", NoPayload>>,
      <<"Blastoise", "MegaEvolution">>, <<"Caterpie", NoPayload>>,
      <<"Metapod", NoPayload>>, <<"Butterfree", NoPayload>>,
      <<"Weedle", NoPayload>>, <<"Kakuna", NoPayload>>,
      <<"Beedrill", "MegaEvolution">>, <<"Pidgey", NoPayload>>,
      <<"Pidgeotto", NoPayload>>, <<"Pidgeot", "MegaEvolution">>,
      <<"Rattata", "AlolaForme">>, <<"Raticate", "AlolaForme">>,
      <<"Spearow", NoPayload>>, <<"Fearow", NoPayload>>,
      <<"Ekans", NoPayload>>, <<"Arbok", NoPayload>>,
      <<"Pikachu", NoPayload>>, <<"Raichu", "AlolaForme">>,
      <<"Sandshrew", "AlolaForme">>, <<"Sandslash", "AlolaForme">>,
      <<"NidoranF", NoPayload>>, <<"Nidorina", NoPayload>>,
      <<"Nidoqueen", NoPayload>>, <<"NidoranM", NoPayload>>,
      <<"Nidorino", NoPayload>>, <<"Nidoking", NoPayload>>,
      <<"Clefairy", NoPayload>>, <<"Clefable", NoPayload>>,
      <<"Vulpix", "AlolaForme">>, <<"Ninetales", "AlolaForme">>,
      <<"Jigglypuff", NoPayload>>, <<"Wigglytuff", NoPayload>>,
      <<"Zubat", NoPayload>>, <<"Golbat", NoPayload>>,
      <<"Oddish", NoPayload>>, <<"Gloom", NoPayload>>,
      <<"Vileplume", NoPayload>>, <<"Paras", NoPayload>>,
      <<"Parasect", NoPayload>>, <<"Venonat", NoPayload>>,
      <<"Venomoth", NoPayload>>, <<"Diglett", "AlolaForme">>,
      <<"Dugtrio", "AlolaForme">>, <<"Meowth", NoPayload>>,
      <<"Persian", "AlolaForme">>, <<"Psyduck", NoPayload>>,
      <<"Golduck", NoPayload>>, <<"Mankey", NoPayload>>,
      <<"Primeape", NoPayload>>, <<"Growlithe", NoPayload>>,
      <<"Arcanine", NoPayload>>, <<"Poliwag", NoPayload>>,
      <<"Poliwhirl", NoPayload>>, <<"Poliwrath", NoPayload>>,
      <<"Abra", NoPayload>>, <<"Kadabra", NoPayload>>,
      <<"Alakazam", "MegaEvolution">>, <<"Machop", NoPayload>>,
      <<"Machoke", NoPayload>>, <<"Machamp", NoPayload>>,
      <<"Bellsprout", NoPayload>>, <<"Weepinbell", NoPayload>>,
      <<"Victreebel", NoPayload>>, <<"Tentacool", NoPayload>>,
      <<"Tentacruel", NoPayload>>, <<"Geodude", "AlolaForme">>,
      <<"Graveler", "AlolaForme">>, <<"Golem", "AlolaForme">>,
      <<"Ponyta", NoPayload>>, <<"Rapidash", NoPayload>>,
      <<"Slowpoke", NoPayload>>, <<"Slowbro", NoPayload>>,
      <<"Magnemite", NoPayload>>, <<"Magneton", NoPayload>>,
      <<"Farfetchd", NoPayload>>, <<"Doduo", NoPayload>>,
      <<"Dodrio", NoPayload>>, <<"Seel", NoPayload>>,
      <<"Dewgong", NoPayload>>, <<"Grimer", "AlolaForme">>,
      <<"Muk", "AlolaForme">>, <<"Shellder", NoPayload>>,
      <<"Cloyster", NoPayload>>, <<"Gastly", NoPayload>>,
      <<"Haunter", NoPayload>>, <<"Gengar", "MegaEvolution">>,
      <<"Onix", NoPayload>>, <<"Drowzee", NoPayload>>, <<"Hypno", NoPayload>>,
      <<"Krabby", NoPayload>>, <<"Kingler", NoPayload>>,
      <<"Voltorb", NoPayload>>, <<"Electrode", NoPayload>>,
      <<"Exeggcute", NoPayload>>, <<"Exeggutor", "AlolaForme">>,
      <<"Cubone", NoPayload>>, <<"Marowak", "AlolaForme">>,
      <<"Hitmonlee", NoPayload>>, <<"Hitmonchan", NoPayload>>,
      <<"Lickitung", NoPayload>>, <<"Koffing", NoPayload>>,
      <<"Weezing", NoPayload>>, <<"Rhyhorn", NoPayload>>,
      <<"Rhydon", NoPayload>>, <<"Chansey", NoPayload>>,
      <<"Tangela", NoPayload>>, <<"Kangaskhan", "MegaEvolution">>,
      <<"Horsea", NoPayload>>, <<"Seadra", NoPayload>>,
      <<"Goldeen", NoPayload>>, <<"Seaking", NoPayload>>,
      <<"Staryu", NoPayload>>, <<"Starmie", NoPayload>>,
      <<"MrMime", NoPayload>>, <<"Scyther", NoPayload>>,
      <<"Jynx", NoPayload>>, <<"Electabuzz", NoPayload>>,
      <<"Magmar", NoPayload>>, <<"Pinsir", "MegaEvolution">>,
      <<"Tauros", NoPayload>>, <<"Magikarp", NoPayload>>,
      <<"Gyarados", "MegaEvolution">>, <<"Lapras", NoPayload>>,
      <<"Ditto", NoPayload>>, <<"Eevee", NoPayload>>,
      <<"Vaporeon", NoPayload>>, <<"Jolteon", NoPayload>>,
      <<"Flareon", NoPayload>>, <<"Porygon", NoPayload>>,
      <<"Omanyte", NoPayload>>, <<"Omastar", NoPayload>>,
      <<"Kabuto", NoPayload>>, <<"Kabutops", NoPayload>>,
      <<"Aerodactyl", "MegaEvolution">>, <<"Snorlax", NoPayload>>,
      <<"Articuno", NoPayload>>, <<"Zapdos", NoPayload>>,
      <<"Moltres", NoPayload>>, <<"Dratini", NoPayload>>,
      <<"Dragonair", NoPayload>>, <<"Dragonite", NoPayload>>,
      <<"Mewtwo", "XYMegaEvolution">>, <<"Mew", NoPayload>>,
      <<"Chikorita", NoPayload>>, <<"Bayleef", NoPayload>>,
      <<"Meganium", NoPayload>>, <<"Cyndaquil", NoPayload>>,
      <<"Quilava", NoPayload>>, <<"Typhlosion", NoPayload>>,
      <<"Totodile", NoPayload>>, <<"Croconaw", NoPayload>>,
      <<"Feraligatr", NoPayload>>, <<"Sentret", NoPayload>>,
      <<"Furret", NoPayload>>, <<"Hoothoot", NoPayload>>,
      <<"Noctowl", NoPayload>>, <<"Ledyba", NoPayload>>,
      <<"Ledian", NoPayload>>, <<"Spinarak", NoPayload>>,
      <<"Ariados", NoPayload>>, <<"Crobat", NoPayload>>,
      <<"Chinchou", NoPayload>>, <<"Lanturn", NoPayload>>,
      <<"Pichu", NoPayload>>, <<"Cleffa", NoPayload>>,
      <<"Igglybuff", NoPayload>>, <<"Togepi", NoPayload>>,
      <<"Togetic", NoPayload>>, <<"Natu", NoPayload>>, <<"Xatu", NoPayload>>,
      <<"Mareep", NoPayload>>, <<"Flaaffy", NoPayload>>,
      <<"Ampharos", NoPayload>>, <<"Bellossom", NoPayload>>,
      <<"Marill", NoPayload>>, <<"Azumarill", NoPayload>>,
      <<"Sudowoodo", NoPayload>>, <<"Politoed", NoPayload>>,
      <<"Hoppip", NoPayload>>, <<"Skiploom", NoPayload>>,
      <<"Jumpluff", NoPayload>>, <<"Aipom", NoPayload>>,
      <<"Sunkern", NoPayload>>, <<"Sunflora", NoPayload>>,
      <<"Yanma", NoPayload>>, <<"Wooper", NoPayload>>,
      <<"Quagsire", NoPayload>>, <<"Espeon", NoPayload>>,
      <<"Umbreon", NoPayload>>, <<"Murkrow", NoPayload>>,
      <<"Slowking", NoPayload>>, <<"Misdreavus", NoPayload>>,
      <<"Unown", NoPayload>>, <<"Wobbuffet", NoPayload>>,
      <<"Girafarig", NoPayload>>, <<"Pineco", NoPayload>>,
      <<"Forretress", NoPayload>>, <<"Dunsparce", NoPayload>>,
      <<"Gligar", NoPayload>>, <<"Steelix", "MegaEvolution">>,
      <<"Snubbull", NoPayload>>, <<"Granbull", NoPayload>>,
      <<"Qwilfish", NoPayload>>, <<"Scizor", "MegaEvolution">>,
      <<"Shuckle", NoPayload>>, <<"Heracross", "MegaEvolution">>,
      <<"Sneasel", NoPayload>>, <<"Teddiursa", NoPayload>>,
      <<"Ursaring", NoPayload>>, <<"Slugma", NoPayload>>,
      <<"Magcargo", NoPayload>>, <<"Swinub", NoPayload>>,
      <<"Piloswine", NoPayload>>, <<"Corsola", NoPayload>>,
      <<"Remoraid", NoPayload>>, <<"Octillery", NoPayload>>,
      <<"Delibird", NoPayload>>, <<"Mantine", NoPayload>>,
      <<"Skarmory", NoPayload>>, <<"Houndour", NoPayload>>,
      <<"Houndoom", "MegaEvolution">>, <<"Kingdra", NoPayload>>,
      <<"Phanpy", NoPayload>>, <<"Donphan", NoPayload>>,
      <<"Porygon2", NoPayload>>, <<"Stantler", NoPayload>>,
      <<"Smeargle", NoPayload>>, <<"Tyrogue", NoPayload>>,
      <<"Hitmontop", NoPayload>>, <<"Smoochum", NoPayload>>,
      <<"Elekid", NoPayload>>, <<"Magby", NoPayload>>,
      <<"Miltank", NoPayload>>, <<"Blissey", NoPayload>>,
      <<"Raikou", NoPayload>>, <<"Entei", NoPayload>>,
      <<"Suicune", NoPayload>>, <<"Larvitar", NoPayload>>,
      <<"Pupitar", NoPayload>>, <<"Tyranitar", "MegaEvolution">>,
      <<"Lugia", NoPayload>>, <<"HoOh", NoPayload>>, <<"Celebi", NoPayload>>,
      <<"Treecko", NoPayload>>, <<"Grovyle", NoPayload>>,
      <<"Sceptile", "MegaEvolution">>, <<"Torchic", NoPayload>>,
      <<"Combusken", NoPayload>>, <<"Blaziken", "MegaEvolution">>,
      <<"Mudkip", NoPayload>>, <<"Marshtomp", NoPayload>>,
      <<"Swampert", "MegaEvolution">>, <<"Poochyena", NoPayload>>,
      <<"Mightyena", NoPayload>>, <<"Zigzagoon", NoPayload>>,
      <<"Linoone", NoPayload>>, <<"Wurmple", NoPayload>>,
      <<"Silcoon", NoPayload>>, <<"Beautifly", NoPayload>>,
      <<"Cascoon", NoPayload>>, <<"Dustox", NoPayload>>,
      <<"Lotad", NoPayload>>, <<"Lombre", NoPayload>>,
      <<"Ludicolo", NoPayload>>, <<"Seedot", NoPayload>>,
      <<"Nuzleaf", NoPayload>>, <<"Shiftry", NoPayload>>,
      <<"Taillow", NoPayload>>, <<"Swellow", NoPayload>>,
      <<"Wingull", NoPayload>>, <<"Pelipper", NoPayload>>,
      <<"Ralts", NoPayload>>, <<"Kirlia", NoPayload>>,
      <<"Gardevoir", "MegaEvolution">>, <<"Surskit", NoPayload>>,
      <<"Masquerain", NoPayload>>, <<"Shroomish", NoPayload>>,
      <<"Breloom", NoPayload>>, <<"Slakoth", NoPayload>>,
      <<"Vigoroth", NoPayload>>, <<"Slaking", NoPayload>>,
      <<"Nincada", NoPayload>>, <<"Ninjask", NoPayload>>,
      <<"Shedinja", NoPayload>>, <<"Whismur", NoPayload>>,
      <<"Loudred", NoPayload>>, <<"Exploud", NoPayload>>,
      <<"Makuhita", NoPayload>>, <<"Hariyama", NoPayload>>,
      <<"Azurill", NoPayload>>, <<"Nosepass", NoPayload>>,
      <<"Skitty", NoPayload>>, <<"Delcatty", NoPayload>>,
      <<"Sableye", "MegaEvolution">>, <<"Mawile", "MegaEvolution">>,
      <<"Aron", NoPayload>>, <<"Lairon", NoPayload>>,
      <<"Aggron", "MegaEvolution">>, <<"Meditite", NoPayload>>,
      <<"Medicham", "MegaEvolution">>, <<"Electrike", NoPayload>>,
      <<"Manectric", "MegaEvolution">>, <<"Plusle", NoPayload>>,
      <<"Minun", NoPayload>>, <<"Volbeat", NoPayload>>,
      <<"Illumise", NoPayload>>, <<"Roselia", NoPayload>>,
      <<"Gulpin", NoPayload>>, <<"Swalot", NoPayload>>,
      <<"Carvanha", NoPayload>>, <<"Sharpedo", "MegaEvolution">>,
      <<"Wailmer", NoPayload>>, <<"Wailord", NoPayload>>,
      <<"Numel", NoPayload>>, <<"Camerupt", "MegaEvolution">>,
      <<"Torkoal", NoPayload>>, <<"Spoink", NoPayload>>,
      <<"Grumpig", NoPayload>>, <<"Spinda", NoPayload>>,
      <<"Trapinch", NoPayload>>, <<"Vibrava", NoPayload>>,
      <<"Flygon", NoPayload>>, <<"Cacnea", NoPayload>>,
      <<"Cacturne", NoPayload>>, <<"Swablu", NoPayload>>,
      <<"Altaria", "MegaEvolution">>, <<"Zangoose", NoPayload>>,
      <<"Seviper", NoPayload>>, <<"Lunatone", NoPayload>>,
      <<"Solrock", NoPayload>>, <<"Barboach", NoPayload>>,
      <<"Whiscash", NoPayload>>, <<"Corphish", NoPayload>>,
      <<"Crawdaunt", NoPayload>>, <<"Baltoy", NoPayload>>,
      <<"Claydol", NoPayload>>, <<"Lileep", NoPayload>>,
      <<"Cradily", NoPayload>>, <<"Anorith", NoPayload>>,
      <<"Armaldo", NoPayload>>, <<"Feebas", NoPayload>>,
      <<"Milotic", NoPayload>>, <<"Castform", "CastformForme">>,
      <<"Kecleon", NoPayload>>, <<"Shuppet", NoPayload>>,
      <<"Banette", NoPayload>>, <<"Duskull", NoPayload>>,
      <<"Dusclops", NoPayload>>, <<"Tropius", NoPayload>>,
      <<"Chimecho", NoPayload>>, <<"Absol", NoPayload>>,
      <<"Wynaut", NoPayload>>, <<"Snorunt", NoPayload>>,
      <<"Glalie", NoPayload>>, <<"Spheal", NoPayload>>,
      <<"Sealeo", NoPayload>>, <<"Walrein", NoPayload>>,
      <<"Clamperl", NoPayload>>, <<"Huntail", NoPayload>>,
      <<"Gorebyss", NoPayload>>, <<"Relicanth", NoPayload>>,
      <<"Luvdisc", NoPayload>>, <<"Bagon", NoPayload>>,
      <<"Shelgon", NoPayload>>, <<"Salamence", "MegaEvolution">>,
      <<"Beldum", NoPayload>>, <<"Metang", NoPayload>>,
      <<"Metagross", "MegaEvolution">>, <<"Regirock", NoPayload>>,
      <<"Regice", NoPayload>>, <<"Registeel", NoPayload>>,
      <<"Latias", NoPayload>>, <<"Latios", NoPayload>>,
      <<"Kyogre", "PrimalReversion">>, <<"Groudon", "PrimalReversion">>,
      <<"Rayquaza", "MegaEvolution">>, <<"Jirachi", NoPayload>>,
      <<"Deoxys", "DeoxysForme">>, <<"Turtwig", NoPayload>>,
      <<"Grotle", NoPayload>>, <<"Torterra", NoPayload>>,
      <<"Chimchar", NoPayload>>, <<"Monferno", NoPayload>>,
      <<"Infernape", NoPayload>>, <<"Piplup", NoPayload>>,
      <<"Prinplup", NoPayload>>, <<"Empoleon", NoPayload>>,
      <<"Starly", NoPayload>>, <<"Staravia", NoPayload>>,
      <<"Staraptor", NoPayload>>, <<"Bidoof", NoPayload>>,
      <<"Bibarel", NoPayload>>, <<"Kricketot", NoPayload>>,
      <<"Kricketune", NoPayload>>, <<"Shinx", NoPayload>>,
      <<"Luxio", NoPayload>>, <<"Luxray", NoPayload>>, <<"Budew", NoPayload>>,
      <<"Roserade", NoPayload>>, <<"Cranidos", NoPayload>>,
      <<"Rampardos", NoPayload>>, <<"Shieldon", NoPayload>>,
      <<"Bastiodon", NoPayload>>, <<"Burmy", NoPayload>>,
      <<"Wormadam", "WormadamForme">>, <<"Mothim", NoPayload>>,
      <<"Combee", NoPayload>>, <<"Vespiquen", NoPayload>>,
      <<"Pachirisu", NoPayload>>, <<"Buizel", NoPayload>>,
      <<"Floatzel", NoPayload>>, <<"Cherubi", NoPayload>>,
      <<"Cherrim", NoPayload>>, <<"Shellos", NoPayload>>,
      <<"Gastrodon", NoPayload>>, <<"Ambipom", NoPayload>>,
      <<"Drifloon", NoPayload>>, <<"Drifblim", NoPayload>>,
      <<"Buneary", NoPayload>>, <<"Lopunny", "MegaEvolution">>,
      <<"Mismagius", NoPayload>>, <<"Honchkrow", NoPayload>>,
      <<"Glameow", NoPayload>>, <<"Purugly", NoPayload>>,
      <<"Chingling", NoPayload>>, <<"Stunky", NoPayload>>,
      <<"Skuntank", NoPayload>>, <<"Bronzor", NoPayload>>,
      <<"Bronzong", NoPayload>>, <<"Bonsly", NoPayload>>,
      <<"MimeJr", NoPayload>>, <<"Happiny", NoPayload>>,
      <<"Chatot", NoPayload>>, <<"Spiritomb", NoPayload>>,
      <<"Gible", NoPayload>>, <<"Gabite", NoPayload>>,
      <<"Garchomp", "MegaEvolution">>, <<"Munchlax", NoPayload>>,
      <<"Riolu", NoPayload>>, <<"Lucario", "MegaEvolution">>,
      <<"Hippopotas", NoPayload>>, <<"Hippowdon", NoPayload>>,
      <<"Skorupi", NoPayload>>, <<"Drapion", NoPayload>>,
      <<"Croagunk", NoPayload>>, <<"Toxicroak", NoPayload>>,
      <<"Carnivine", NoPayload>>, <<"Finneon", NoPayload>>,
      <<"Lumineon", NoPayload>>, <<"Mantyke", NoPayload>>,
      <<"Snover", NoPayload>>, <<"Abomasnow", "MegaEvolution">>,
      <<"Weavile", NoPayload>>, <<"Magnezone", NoPayload>>,
      <<"Lickilicky", NoPayload>>, <<"Rhyperior", NoPayload>>,
      <<"Tangrowth", NoPayload>>, <<"Electivire", NoPayload>>,
      <<"Magmortar", NoPayload>>, <<"Togekiss", NoPayload>>,
      <<"Yanmega", NoPayload>>, <<"Leafeon", NoPayload>>,
      <<"Glaceon", NoPayload>>, <<"Gliscor", NoPayload>>,
      <<"Mamoswine", NoPayload>>, <<"PorygonZ", NoPayload>>,
      <<"Gallade", "MegaEvolution">>, <<"Probopass", NoPayload>>,
      <<"Dusknoir", NoPayload>>, <<"Froslass", NoPayload>>,
      <<"Rotom", "RotomForme">>, <<"Uxie", NoPayload>>,
      <<"Mesprit", NoPayload>>, <<"Azelf", NoPayload>>,
      <<"Dialga", NoPayload>>, <<"Palkia", NoPayload>>,
      <<"Heatran", NoPayload>>, <<"Regigigas", NoPayload>>,
      <<"Giratina", "GiratinaForme">>, <<"Cresselia", NoPayload>>,
      <<"Phione", NoPayload>>, <<"Manaphy", NoPayload>>,
      <<"Darkrai", NoPayload>>, <<"Shaymin", "ShayminForme">>,
      <<"Arceus", "ArceusForme">>, <<"Victini", NoPayload>>,
      <<"Snivy", NoPayload>>, <<"Servine", NoPayload>>,
      <<"Serperior", NoPayload>>, <<"Tepig", NoPayload>>,
      <<"Pignite", NoPayload>>, <<"Emboar", NoPayload>>,
      <<"Oshawott", NoPayload>>, <<"Dewott", NoPayload>>,
      <<"Samurott", NoPayload>>, <<"Patrat", NoPayload>>,
      <<"Watchog", NoPayload>>, <<"Lillipup", NoPayload>>,
      <<"Herdier", NoPayload>>, <<"Stoutland", NoPayload>>,
      <<"Purrloin", NoPayload>>, <<"Liepard", NoPayload>>,
      <<"Pansage", NoPayload>>, <<"Simisage", NoPayload>>,
      <<"Pansear", NoPayload>>, <<"Simisear", NoPayload>>,
      <<"Panpour", NoPayload>>, <<"Simipour", NoPayload>>,
      <<"Munna", NoPayload>>, <<"Musharna", NoPayload>>,
      <<"Pidove", NoPayload>>, <<"Tranquill", NoPayload>>,
      <<"Unfezant", NoPayload>>, <<"Blitzle", NoPayload>>,
      <<"Zebstrika", NoPayload>>, <<"Roggenrola", NoPayload>>,
      <<"Boldore", NoPayload>>, <<"Gigalith", NoPayload>>,
      <<"Woobat", NoPayload>>, <<"Swoobat", NoPayload>>,
      <<"Drilbur", NoPayload>>, <<"Excadrill", NoPayload>>,
      <<"Audino", NoPayload>>, <<"Timburr", NoPayload>>,
      <<"Gurdurr", NoPayload>>, <<"Conkeldurr", NoPayload>>,
      <<"Tympole", NoPayload>>, <<"Palpitoad", NoPayload>>,
      <<"Seismitoad", NoPayload>>, <<"Throh", NoPayload>>,
      <<"Sawk", NoPayload>>, <<"Sewaddle", NoPayload>>,
      <<"Swadloon", NoPayload>>, <<"Leavanny", NoPayload>>,
      <<"Venipede", NoPayload>>, <<"Whirlipede", NoPayload>>,
      <<"Scolipede", NoPayload>>, <<"Cottonee", NoPayload>>,
      <<"Whimsicott", NoPayload>>, <<"Petilil", NoPayload>>,
      <<"Lilligant", NoPayload>>, <<"Basculin", NoPayload>>,
      <<"Sandile", NoPayload>>, <<"Krokorok", NoPayload>>,
      <<"Krookodile", NoPayload>>, <<"Darumaka", NoPayload>>,
      <<"Darmanitan", "DarmanitanForme">>, <<"Maractus", NoPayload>>,
      <<"Dwebble", NoPayload>>, <<"Crustle", NoPayload>>,
      <<"Scraggy", NoPayload>>, <<"Scrafty", NoPayload>>,
      <<"Sigilyph", NoPayload>>, <<"Yamask", NoPayload>>,
      <<"Cofagrigus", NoPayload>>, <<"Tirtouga", NoPayload>>,
      <<"Carracosta", NoPayload>>, <<"Archen", NoPayload>>,
      <<"Archeops", NoPayload>>, <<"Trubbish", NoPayload>>,
      <<"Garbodor", NoPayload>>, <<"Zorua", NoPayload>>,
      <<"Zoroark", NoPayload>>, <<"Minccino", NoPayload>>,
      <<"Cinccino", NoPayload>>, <<"Gothita", NoPayload>>,
      <<"Gothorita", NoPayload>>, <<"Gothitelle", NoPayload>>,
      <<"Solosis", NoPayload>>, <<"Duosion", NoPayload>>,
      <<"Reuniclus", NoPayload>>, <<"Ducklett", NoPayload>>,
      <<"Swanna", NoPayload>>, <<"Vanillite", NoPayload>>,
      <<"Vanillish", NoPayload>>, <<"Vanilluxe", NoPayload>>,
      <<"Deerling", NoPayload>>, <<"Sawsbuck", NoPayload>>,
      <<"Emolga", NoPayload>>, <<"Karrablast", NoPayload>>,
      <<"Escavalier", NoPayload>>, <<"Foongus", NoPayload>>,
      <<"Amoonguss", NoPayload>>, <<"Frillish", NoPayload>>,
      <<"Jellicent", NoPayload>>, <<"Alomomola", NoPayload>>,
      <<"Joltik", NoPayload>>, <<"Galvantula", NoPayload>>,
      <<"Ferroseed", NoPayload>>, <<"Ferrothorn", NoPayload>>,
      <<"Klink", NoPayload>>, <<"Klang", NoPayload>>,
      <<"Klinklang", NoPayload>>, <<"Tynamo", NoPayload>>,
      <<"Eelektrik", NoPayload>>, <<"Eelektross", NoPayload>>,
      <<"Elgyem", NoPayload>>, <<"Beheeyem", NoPayload>>,
      <<"Litwick", NoPayload>>, <<"Lampent", NoPayload>>,
      <<"Chandelure", NoPayload>>, <<"Axew", NoPayload>>,
      <<"Fraxure", NoPayload>>, <<"Haxorus", NoPayload>>,
      <<"Cubchoo", NoPayload>>, <<"Beartic", NoPayload>>,
      <<"Cryogonal", NoPayload>>, <<"Shelmet", NoPayload>>,
      <<"Accelgor", NoPayload>>, <<"Stunfisk", NoPayload>>,
      <<"Mienfoo", NoPayload>>, <<"Mienshao", NoPayload>>,
      <<"Druddigon", NoPayload>>, <<"Golett", NoPayload>>,
      <<"Golurk", NoPayload>>, <<"Pawniard", NoPayload>>,
      <<"Bisharp", NoPayload>>, <<"Bouffalant", NoPayload>>,
      <<"Rufflet", NoPayload>>, <<"Braviary", NoPayload>>,
      <<"Vullaby", NoPayload>>, <<"Mandibuzz", NoPayload>>,
      <<"Heatmor", NoPayload>>, <<"Durant", NoPayload>>,
      <<"Deino", NoPayload>>, <<"Zweilous", NoPayload>>,
      <<"Hydreigon", NoPayload>>, <<"Larvesta", NoPayload>>,
      <<"Volcarona", NoPayload>>, <<"Cobalion", NoPayload>>,
      <<"Terrakion", NoPayload>>, <<"Virizion", NoPayload>>,
      <<"Tornadus", "GenieForme">>, <<"Thundurus", "GenieForme">>,
      <<"Reshiram", NoPayload>>, <<"Zekrom", NoPayload>>,
      <<"Landorus", "GenieForme">>, <<"Kyurem", "KyuremForme">>,
      <<"Keldeo", NoPayload>>, <<"Meloetta", "KyuremForme">>,
      <<"Genesect", NoPayload>>, <<"Chespin", NoPayload>>,
      <<"Quilladin", NoPayload>>, <<"Chesnaught", NoPayload>>,
      <<"Fennekin", NoPayload>>, <<"Braixen", NoPayload>>,
      <<"Delphox", NoPayload>>, <<"Froakie", NoPayload>>,
      <<"Frogadier", NoPayload>>, <<"Greninja", "GreninjaForme">>,
      <<"Bunnelby", NoPayload>>, <<"Diggersby", NoPayload>>,
      <<"Fletchling", NoPayload>>, <<"Fletchinder", NoPayload>>,
      <<"Talonflame", NoPayload>>, <<"Scatterbug", NoPayload>>,
      <<"Spewpa", NoPayload>>, <<"Vivillon", NoPayload>>,
      <<"Litleo", NoPayload>>, <<"Pyroar", NoPayload>>,
      <<"Flabebe", NoPayload>>, <<"Floette", NoPayload>>,
      <<"Florges", NoPayload>>, <<"Skiddo", NoPayload>>,
      <<"Gogoat", NoPayload>>, <<"Pancham", NoPayload>>,
      <<"Pangoro", NoPayload>>, <<"Furfrou", NoPayload>>,
      <<"Espurr", NoPayload>>, <<"Meowstic", NoPayload>>,
      <<"Honedge", NoPayload>>, <<"Doublade", NoPayload>>,
      <<"Aegislash", "AegislashForme">>, <<"Spritzee", NoPayload>>,
      <<"Aromatisse", NoPayload>>, <<"Swirlix", NoPayload>>,
      <<"Slurpuff", NoPayload>>, <<"Inkay", NoPayload>>,
      <<"Malamar", NoPayload>>, <<"Binacle", NoPayload>>,
      <<"Barbaracle", NoPayload>>, <<"Skrelp", NoPayload>>,
      <<"Dragalge", NoPayload>>, <<"Clauncher", NoPayload>>,
      <<"Clawitzer", NoPayload>>, <<"Helioptile", NoPayload>>,
      <<"Heliolisk", NoPayload>>, <<"Tyrunt", NoPayload>>,
      <<"Tyrantrum", NoPayload>>, <<"Amaura", NoPayload>>,
      <<"Aurorus", NoPayload>>, <<"Sylveon", NoPayload>>,
      <<"Hawlucha", NoPayload>>, <<"Dedenne", NoPayload>>,
      <<"Carbink", NoPayload>>, <<"Goomy", NoPayload>>,
      <<"Sliggoo", NoPayload>>, <<"Goodra", NoPayload>>,
      <<"Klefki", NoPayload>>, <<"Phantump", NoPayload>>,
      <<"Trevenant", NoPayload>>, <<"Pumpkaboo", "GourgeistForme">>,
      <<"Gourgeist", "GourgeistForme">>, <<"Bergmite", NoPayload>>,
      <<"Avalugg", NoPayload>>, <<"Noibat", NoPayload>>,
      <<"Noivern", NoPayload>>, <<"Xerneas", NoPayload>>,
      <<"Yveltal", NoPayload>>, <<"Zygarde", "ZygardeForme">>,
      <<"Diancie", "MegaEvolution">>, <<"Hoopa", "HoopaForme">>,
      <<"Volcanion", NoPayload>>, <<"Rowlet", NoPayload>>,
      <<"Dartrix", NoPayload>>, <<"Decidueye", NoPayload>>,
      <<"Litten", NoPayload>>, <<"Torracat", NoPayload>>,
      <<"Incineroar", NoPayload>>, <<"Popplio", NoPayload>>,
      <<"Brionne", NoPayload>>, <<"Primarina", NoPayload>>,
      <<"Pikipek", NoPayload>>, <<"Trumbeak", NoPayload>>,
      <<"Toucannon", NoPayload>>, <<"Yungoos", NoPayload>>,
      <<"Gumshoos", NoPayload>>, <<"Grubbin", NoPayload>>,
      <<"Charjabug", NoPayload>>, <<"Vikavolt", NoPayload>>,
      <<"Crabrawler", NoPayload>>, <<"Crabominable", NoPayload>>,
      <<"Oricorio", "OricorioForme">>, <<"Cutiefly", NoPayload>>,
      <<"Ribombee", NoPayload>>, <<"Rockruff", NoPayload>>,
      <<"Lycanroc", "LycanrocForme">>, <<"Wishiwashi", "WishiwashiForme">>,
      <<"Mareanie", NoPayload>>, <<"Toxapex", NoPayload>>,
      <<"Mudbray", NoPayload>>, <<"Mudsdale", NoPayload>>,
      <<"Dewpider", NoPayload>>, <<"Araquanid", NoPayload>>,
      <<"Fomantis", NoPayload>>, <<"Lurantis", NoPayload>>,
      <<"Morelull", NoPayload>>, <<"Shiinotic", NoPayload>>,
      <<"Salandit", NoPayload>>, <<"Salazzle", NoPayload>>,
      <<"Stufful", NoPayload>>, <<"Bewear", NoPayload>>,
      <<"Bounsweet", NoPayload>>, <<"Steenee", NoPayload>>,
      <<"Tsareena", NoPayload>>, <<"Comfey", NoPayload>>,
      <<"Oranguru", NoPayload>>, <<"Passimian", NoPayload>>,
      <<"Wimpod", NoPayload>>, <<"Golisopod", NoPayload>>,
      <<"Sandygast", NoPayload>>, <<"Palossand", NoPayload>>,
      <<"Pyukumuku", NoPayload>>, <<"TypeNull", "SilvallyForme">>,
      <<"Silvally", "SilvallyForme">>, <<"Minior", "MiniorForme">>,
      <<"Komala", NoPayload>>, <<"Turtonator", NoPayload>>,
      <<"Togedemaru", NoPayload>>, <<"Mimikyu", "MimikyuForme">>,
      <<"Bruxish", NoPayload>>, <<"Drampa", NoPayload>>,
      <<"Dhelmise", NoPayload>>, <<"JangmoO", NoPayload>>,
      <<"HakamoO", NoPayload>>, <<"KommoO", NoPayload>>,
      <<"TapuKoko", NoPayload>>, <<"TapuLele", NoPayload>>,
      <<"TapuBulu", NoPayload>>, <<"TapuFini", NoPayload>>,
      <<"Cosmog", NoPayload>>, <<"Cosmoem", NoPayload>>,
      <<"Solgaleo", NoPayload>>, <<"Lunala", NoPayload>>,
      <<"Nihilego", NoPayload>>, <<"Buzzwole", NoPayload>>,
      <<"Pheromosa", NoPayload>>, <<"Xurkitree", NoPayload>>,
      <<"Celesteela", NoPayload>>, <<"Kartana", NoPayload>>,
      <<"Guzzlord", NoPayload>>, <<"Necrozma", "NecrozmaForme">>,
      <<"Magearna", NoPayload>>, <<"Marshadow", NoPayload>>,
      <<"Poipole", NoPayload>>, <<"Naganadel", NoPayload>>,
      <<"Stakataka", NoPayload>>, <<"Blacephalon", NoPayload>>,
      <<"Zeraora", NoPayload>>
    >>

\* the position of a variant of Species in the declaration, counting from 1
species_index(name) == CHOOSE i \in DOMAIN SpeciesDecl : SpeciesDecl[i][1] = name

\* the values of type Species the compiler allows: a variant, with one of the
\* variants of its payload type when it is declared with one
SpeciesValues ==
    UNION {
        IF SpeciesDecl[i][2] = NoPayload
        THEN {<<SpeciesDecl[i][1], NoPayload>>}
        ELSE {<<SpeciesDecl[i][1], FormeEnums[SpeciesDecl[i][2]][k]>> :
                 k \in DOMAIN FormeEnums[SpeciesDecl[i][2]]}
        : i \in DOMAIN SpeciesDecl }

\* the variants named by the arms of has_forme that give true, in the order
\* of the arms
HasFormeArms ==
    <<
      "Venusaur", "Charizard", "Blastoise", "Beedrill", "Pidgeot", "Raichu",
      "Sandshrew", "Sandslash", "Vulpix", "Ninetales", "Diglett", "Dugtrio",
      "Persian", "Rattata", "Raticate", "Alakazam", "Geodude", "Graveler",
      "Golem", "Grimer", "Muk", "Gengar", "Exeggutor", "Marowak",
      "Kangaskhan", "Pinsir", "Gyarados", "Aerodactyl", "Mewtwo", "Steelix",
      "Scizor", "Heracross", "Houndoom", "Tyranitar", "Sceptile", "Blaziken",
      "Swampert", "Gardevoir", "Sableye", "Mawile", "Aggron", "Medicham",
      "Manectric", "Sharpedo", "Camerupt", "Altaria", "Castform", "Salamence",
      "Metagross", "Kyogre", "Groudon", "Rayquaza", "Deoxys", "Wormadam",
      "Lopunny", "Garchomp", "Lucario", "Abomasnow", "Gallade", "Rotom",
      "Giratina", "Shaymin", "Arceus", "Darmanitan", "Tornadus", "Thundurus",
      "Landorus", "Kyurem", "Meloetta", "Greninja", "Aegislash", "Pumpkaboo",
      "Gourgeist", "Zygarde", "Diancie", "Hoopa", "Oricorio", "Lycanroc",
      "Wishiwashi", "TypeNull", "Silvally", "Minior", "Mimikyu", "Necrozma"
    >>

\* has_forme without its last arm
has_forme_missing_arm(self) ==
    \E i \in 1..(Len(HasFormeArms) - 1) : HasFormeArms[i] = self[1]

has_forme(self) == \E i \in DOMAIN HasFormeArms : HasFormeArms[i] = self[1]

\* SpeciesDiscriminant as u32, with the ordinals counted from 1
discriminant_from_one(self) == species_index(self[1])

\* SpeciesDiscriminant::from(self) as u32: the variant of the same name of
\* the fieldless enum strum derives, whose ordinals count from 0 in
\* declaration order
discriminant(self) == species_index(self[1]) - 1

\* the variant that follows each comment "gen N starts here", for N = 2..7
GenStarts == <<"Chikorita", "Treecko", "Turtwig", "Victini", "Chespin", "Rowlet">>

\* ------------------------------------------------------------------------
\* Stat and Nature (stat.rs, nature.rs)

\* enum Stat, in declaration order
StatDecl == <<"HP", "Atk", "Def", "SpA", "SpD", "Spe">>

Stat == {StatDecl[i] : i \in DOMAIN StatDecl}

\* enum Nature, in declaration order
NatureDecl ==
    <<"Hardy", "Lonely", "Adamant", "Naughty", "Brave",
      "Bold", "Docile", "Impish", "Lax", "Relaxed",
      "Modest", "Mild", "Bashful", "Rash", "Quiet",
      "Calm", "Gentle", "Careful", "Quirky", "Sassy",
      "Timid", "Hasty", "Jolly", "Naive", "Serious">>

Nature == {NatureDecl[i] : i \in DOMAIN NatureDecl}

\* Nature::all_natures: the vec! literal
all_natures ==
    <<"Hardy", "Lonely", "Adamant", "Naughty", "Brave",
      "Bold", "Docile", "Impish", "Lax", "Relaxed",
      "Modest", "Mild", "Bashful", "Rash", "Quiet",
      "Calm", "Gentle", "Careful", "Quirky", "Sassy",
      "Timid", "Hasty", "Jolly", "Naive", "Serious">>

\* has_stat_effect with the first row of the table as the neutral natures
has_stat_effect_first_row(self) ==
    CASE self \in {"Hardy", "Lonely", "Adamant", "Naughty", "Brave"} -> FALSE
      [] OTHER -> TRUE

\* Nature::has_stat_effect
has_stat_effect(self) ==
    CASE self \in {"Hardy", "Docile", "Bashful", "Quirky", "Serious"} -> FALSE
      [] OTHER -> TRUE

\* Nature::increased_stat
increased_stat(self) ==
    CASE self \in {"Hardy", "Lonely", "Adamant", "Naughty", "Brave"} -> "Atk"
      [] self \in {"Bold", "Docile", "Impish", "Lax", "Relaxed"} -> "Def"
      [] self \in {"Modest", "Mild", "Bashful", "Rash", "Quiet"} -> "SpA"
      [] self \in {"Calm", "Gentle", "Careful", "Quirky", "Sassy"} -> "SpD"
      [] self \in {"Timid", "Hasty", "Jolly", "Naive", "Serious"} -> "Spe"

\* decreased_stat reading the table by rows, as increased_stat does
decreased_stat_by_row(self) ==
    CASE self \in {"Hardy", "Lonely", "Adamant", "Naughty", "Brave"} -> "Atk"
      [] self \in {"Bold", "Docile", "Impish", "Lax", "Relaxed"} -> "Def"
      [] self \in {"Modest", "Mild", "Bashful", "Rash", "Quiet"} -> "SpA"
      [] self \in {"Calm", "Gentle", "Careful", "Quirky", "Sassy"} -> "SpD"
      [] self \in {"Timid", "Hasty", "Jolly", "Naive", "Serious"} -> "Spe"

\* Nature::decreased_stat
decreased_stat(self) ==
    CASE self \in {"Hardy", "Bold", "Modest", "Calm", "Timid"} -> "Atk"
      [] self \in {"Lonely", "Docile", "Mild", "Gentle", "Hasty"} -> "Def"
      [] self \in {"Adamant", "Impish", "Bashful", "Careful", "Jolly"} -> "SpA"
      [] self \in {"Naughty", "Lax", "Rash", "Quirky", "Naive"} -> "SpD"
      [] self \in {"Brave", "Relaxed", "Quiet", "Sassy", "Serious"} -> "Spe"

\* ------------------------------------------------------------------------
\* Calls

\* The f32 inputs of from_num_multiplier: the multiples of 1/8 from
\* -GridMax/8 to GridMax/8, which reach past 16 on both sides
GridMax == 130

Grid == {Norm(<<n, 8>>) : n \in (0 - GridMax)..GridMax}

Init ==
    /\ op = "none"
    /\ args = <<>>
    /\ result = "none"

Mul ==
    \E a \in Multiplier, b \in Multiplier :
        /\ op = "none"
        /\ op' = "mul"
        /\ args' = <<a, b>>
        /\ result' = mul(a, b)

OffenseMultiplier ==
    \E a \in Typing, d \in Typing :
        /\ op = "none"
        /\ op' = "offense_multiplier"
        /\ args' = <<a, d>>
        /\ result' = offense_multiplier(a, d)

DefenseMultiplier ==
    \E d \in Typing, a \in Typing :
        /\ op = "none"
        /\ op' = "defense_multiplier"
        /\ args' = <<d, a>>
        /\ result' = defense_multiplier(d, a)

CombinedEffectiveness ==
    \E a \in Typing, d1 \in Typing, d2 \in Typing :
        /\ op = "none"
        /\ op' = "combined_effectiveness"
        /\ args' = <<a, d1, d2>>
        /\ result' = combined_effectiveness(a, <<d1, d2>>)

WeakTo ==
    \E t \in Typing :
        /\ op = "none"
        /\ op' = "weak_to"
        /\ args' = <<t>>
        /\ result' = weak_to(t)

ResistantTo ==
    \E t \in Typing :
        /\ op = "none"
        /\ op' = "resistant_to"
        /\ args' = <<t>>
        /\ result' = resistant_to(t)

NeutralTo ==
    \E t \in Typing :
        /\ op = "none"
        /\ op' = "neutral_to"
        /\ args' = <<t>>
        /\ result' = neutral_to(t)

ImmuneTo ==
    \E t \in Typing :
        /\ op = "none"
        /\ op' = "immune_to"
        /\ args' = <<t>>
        /\ result' = immune_to(t)

WeakAgainst ==
    \E t \in Typing :
        /\ op = "none"
        /\ op' = "weak_against"
        /\ args' = <<t>>
        /\ result' = weak_against(t)

ResistantAgainst ==
    \E t \in Typing :
        /\ op = "none"
        /\ op' = "resistant_against"
        /\ args' = <<t>>
        /\ result' = resistant_against(t)

NeutralAgainst ==
    \E t \in Typing :
        /\ op = "none"
        /\ op' = "neutral_against"
        /\ args' = <<t>>
        /\ result' = neutral_against(t)

ImmuneAgainst ==
    \E t \in Typing :
        /\ op = "none"
        /\ op' = "immune_against"
        /\ args' = <<t>>
        /\ result' = immune_against(t)

FromNumMultiplier ==
    \E x \in Grid :
        /\ op = "none"
        /\ op' = "from_num_multiplier"
        /\ args' = <<x>>
        /\ result' = from_num_multiplier(x)

Into ==
    \E m \in Multiplier :
        /\ op = "none"
        /\ op' = "into"
        /\ args' = <<m>>
        /\ result' = into_f32(m)

TryFrom ==
    \E code \in 0..255 :
        /\ op = "none"
        /\ op' = "try_from"
        /\ args' = <<code>>
        /\ result' = try_from(code)

NumCode ==
    \E t \in Typing :
        /\ op = "none"
        /\ op' = "num_code"
        /\ args' = <<t>>
        /\ result' = num_code(t)

AllTypings ==
    /\ op = "none"
    /\ op' = "all_typings"
    /\ args' = <<>>
    /\ result' = all_typings

MultiplierLt ==
    \E a \in Multiplier, b \in Multiplier :
        /\ op = "none"
        /\ op' = "lt"
        /\ args' = <<a, b>>
        /\ result' = multiplier_lt(a, b)

Add ==
    \E a \in StatStage, b \in StatStage :
        /\ op = "none"
        /\ op' = "add"
        /\ args' = <<a, b>>
        /\ result' = add(a, b)

NormalMultiplier ==
    \E stage \in StatStage :
        /\ op = "none"
        /\ op' = "normal_multiplier"
        /\ args' = <<stage>>
        /\ result' = normal_multiplier(stage)

AccuracyMultiplier ==
    \E stage \in StatStage :
        /\ op = "none"
        /\ op' = "accuracy_multiplier"
        /\ args' = <<stage>>
        /\ result' = accuracy_multiplier(stage)

HasForme ==
    \E species \in SpeciesValues :
        /\ op = "none"
        /\ op' = "has_forme"
        /\ args' = <<species>>
        /\ result' = has_forme(species)

Discriminant ==
    \E species \in SpeciesValues :
        /\ op = "none"
        /\ op' = "discriminant"
        /\ args' = <<species>>
        /\ result' = discriminant(species)

AllNatures ==
    /\ op = "none"
    /\ op' = "all_natures"
    /\ args' = <<>>
    /\ result' = all_natures

HasStatEffect ==
    \E self \in Nature :
        /\ op = "none"
        /\ op' = "has_stat_effect"
        /\ args' = <<self>>
        /\ result' = has_stat_effect(self)

IncreasedStat ==
    \E self \in Nature :
        /\ op = "none"
        /\ op' = "increased_stat"
        /\ args' = <<self>>
        /\ result' = increased_stat(self)

DecreasedStat ==
    \E self \in Nature :
        /\ op = "none"
        /\ op' = "decreased_stat"
        /\ args' = <<self>>
        /\ result' = decreased_stat(self)

MulMul ==
    \E a \in Multiplier, b \in Multiplier, c \in Multiplier :
        /\ op = "none"
        /\ op' = "mul_mul"
        /\ args' = <<a, b, c>>
        /\ result' = <<mul_left(a, b, c), mul_right(a, b, c)>>

AddAdd ==
    \E a \in StatStage, b \in StatStage, c \in StatStage :
        /\ op = "none"
        /\ op' = "add_add"
        /\ args' = <<a, b, c>>
        /\ result' = <<add_left(a, b, c), add_right(a, b, c)>>

Next ==
    \/ Mul
    \/ OffenseMultiplier
    \/ DefenseMultiplier
    \/ CombinedEffectiveness
    \/ WeakTo
    \/ ResistantTo
    \/ NeutralTo
    \/ ImmuneTo
    \/ WeakAgainst
    \/ ResistantAgainst
    \/ NeutralAgainst
    \/ ImmuneAgainst
    \/ FromNumMultiplier
    \/ Into
    \/ TryFrom
    \/ NumCode
    \/ AllTypings
    \/ MultiplierLt
    \/ Add
    \/ NormalMultiplier
    \/ AccuracyMultiplier
    \/ HasForme
    \/ Discriminant
    \/ AllNatures
    \/ HasStatEffect
    \/ IncreasedStat
    \/ DecreasedStat
    \/ MulMul
    \/ AddAdd

Spec == Init /\ [][Next]_vars

\* ------------------------------------------------------------------------
\* Multiplier composition

\* the numeric product of the two operands of the recorded mul call
ArgsProduct == FMul(into_f32(args[1]), into_f32(args[2]))

Representable == {<<0, 1>>, <<1, 4>>, <<1, 2>>, <<1, 1>>, <<2, 1>>, <<4, 1>>}

\* C1: a * b returns one of the six Multiplier values, and never panics, for
\* every ordered pair (a, b) of Multiplier values, DoubleResistance *
\* DoubleResistance and DoubleWeakness * DoubleWeakness included.
C1_MulClosedAndTotal ==
    op = "mul" => result \in Multiplier

\* C2: a product of 8 or more gives DoubleWeakness, and a non-zero product of
\* 0.125 or less gives DoubleResistance.
C2_ClampingRule ==
    op = "mul" =>
        /\ FLeq(<<8, 1>>, ArgsProduct) => result = DoubleWeakness
        /\ (ArgsProduct # <<0, 1>> /\ FLeq(ArgsProduct, <<1, 8>>)) =>
              result = DoubleResistance

\* C3: whenever the numeric product of a and b is one of 0, 0.25, 0.5, 1, 2, 4,
\* a * b is the Multiplier with that numeric value; so Weakness * Weakness is
\* DoubleWeakness, Resistance * Resistance is DoubleResistance, Regular is a
\* two-sided identity and Immunity is absorbing on both sides.
C3_MulAgreesWithProduct ==
    op = "mul" =>
        /\ ArgsProduct \in Representable =>
              (result \in Multiplier /\ into_f32(result) = ArgsProduct)
        /\ args = <<Weakness, Weakness>> => result = DoubleWeakness
        /\ args = <<Resistance, Resistance>> => result = DoubleResistance
        /\ args[1] = Regular => result = args[2]
        /\ args[2] = Regular => result = args[1]
        /\ (args[1] = Immunity \/ args[2] = Immunity) => result = Immunity

C3_Witness ==
    /\ op = "mul"
    /\ args = <<Resistance, Resistance>>
    /\ result = DoubleResistance

\* ------------------------------------------------------------------------
\* Matrix lookups

\* the matrix cell in the row of attacker a and the column of defender d
Cell(a, d) == TYPE_MULTIPLIERS[(num_code(a) * 18) + num_code(d) + 1]

\* C4: for every attacker a and every ordered pair of defenders (d1, d2),
\* combined_effectiveness(a, (d1, d2)) does not panic and is
\* offense_multiplier(a, d1) * offense_multiplier(a, d2), the Multiplier whose
\* value is the product of the two matrix cells; Ice against (Flying, Ground)
\* is DoubleWeakness.
C4_CombinedEffectiveness ==
    op = "combined_effectiveness" =>
        /\ result \in Multiplier
        /\ result = mul(offense_multiplier(args[1], args[2]),
                        offense_multiplier(args[1], args[3]))
        /\ into_f32(result) = FMul(Cell(args[1], args[2]), Cell(args[1], args[3]))
        /\ args = <<"Ice", "Flying", "Ground">> => result = DoubleWeakness

C4_Witness ==
    /\ op = "combined_effectiveness"
    /\ args = <<"Ice", "Flying", "Ground">>
    /\ result = DoubleWeakness

\* C5: for every (attacker, defender) pair the index attacker_code * 18 +
\* defender_code lies in 0..323, the cell there is one of 0.0, 0.5, 1.0, 2.0,
\* and offense_multiplier returns one of Immunity, Resistance, Regular,
\* Weakness (no panic, no DoubleResistance, no DoubleWeakness).
C5_OffenseMultiplierTotal ==
    op = "offense_multiplier" =>
        /\ Len(TYPE_MULTIPLIERS) = 324
        /\ matrix_index(args[1], args[2]) \in 0..323
        /\ Cell(args[1], args[2]) \in {<<0, 1>>, <<1, 2>>, <<1, 1>>, <<2, 1>>}
        /\ result \in {Immunity, Resistance, Regular, Weakness}

C5_Witness ==
    /\ op = "offense_multiplier"
    /\ args = <<"Fairy", "Fairy">>
    /\ matrix_index("Fairy", "Fairy") = 323
    /\ result = Regular

\* C6: b.defense_multiplier(a) is a.offense_multiplier(b) for all typings a, b;
\* Ghost defending against Normal is Immunity, Flying against Electric is
\* Weakness, Steel against Dark is Regular, Fairy against Bug is Resistance.
C6_DefenseMirrorsOffense ==
    op = "defense_multiplier" =>
        /\ result = offense_multiplier(args[2], args[1])
        /\ args = <<"Ghost", "Normal">> => result = Immunity
        /\ args = <<"Flying", "Electric">> => result = Weakness
        /\ args = <<"Steel", "Dark">> => result = Regular
        /\ args = <<"Fairy", "Bug">> => result = Resistance

C6_Witness ==
    /\ op = "defense_multiplier"
    /\ args = <<"Flying", "Electric">>
    /\ result = Weakness
    /\ offense_multiplier("Flying", "Electric") # Weakness

\* C7: a.offense_multiplier(d) is the decoded cell at flat index
\* num_code(a) * 18 + num_code(d), the attacker selecting the row: Ground
\* attacking Flying is Immunity, Water attacking Fire is Weakness, Normal
\* attacking Grass is Regular, Fighting attacking Psychic is Resistance, and
\* the sixth cell, Normal attacking Rock, is Resistance.
C7_MatrixOrientation ==
    op = "offense_multiplier" =>
        /\ result = from_num_multiplier(Cell(args[1], args[2]))
        /\ args = <<"Ground", "Flying">> => result = Immunity
        /\ args = <<"Water", "Fire">> => result = Weakness
        /\ args = <<"Normal", "Grass">> => result = Regular
        /\ args = <<"Fighting", "Psychic">> => result = Resistance
        /\ args = <<"Normal", "Rock">> =>
              /\ matrix_index(args[1], args[2]) + 1 = 6
              /\ TYPE_MULTIPLIERS[6] = <<1, 2>>
              /\ result = Resistance

C7_Witness ==
    /\ op = "offense_multiplier"
    /\ args = <<"Ground", "Flying">>
    /\ result = Immunity
    /\ Cell("Flying", "Ground") # <<0, 1>>

\* ------------------------------------------------------------------------
\* Filters

ToOps == {"weak_to", "resistant_to", "neutral_to", "immune_to"}

AgainstOps ==
    {"weak_against", "resistant_against", "neutral_against", "immune_against"}

\* the Multiplier a filter keeps
Kept(o) ==
    CASE o \in {"weak_to", "weak_against"} -> Weakness
      [] o \in {"resistant_to", "resistant_against"} -> Resistance
      [] o \in {"neutral_to", "neutral_against"} -> Regular
      [] o \in {"immune_to", "immune_against"} -> Immunity

\* how many elements of seq are x
Count(seq, x) == Cardinality({i \in DOMAIN seq : seq[i] = x})

\* seq holds exactly the members of S, in strictly ascending num_code order
AscendingListOf(seq, S) ==
    /\ seq # PanicVec
    /\ {seq[i] : i \in DOMAIN seq} = S
    /\ \A i, j \in DOMAIN seq : i < j => num_code(seq[i]) < num_code(seq[j])

\* C8: for every defending typing t, each of the 18 typings is in exactly one
\* of weak_to(t), resistant_to(t), neutral_to(t), immune_to(t): the lists are
\* pairwise disjoint and their lengths sum to 18.
C8_ToListsPartition ==
    op \in ToOps =>
        LET t == args[1]
            lists == <<weak_to(t), resistant_to(t), neutral_to(t), immune_to(t)>>
        IN  /\ \A k \in 1..4 : lists[k] # PanicVec
            /\ \E k \in 1..4 : result = lists[k]
            /\ \A x \in Typing :
                  Count(lists[1], x) + Count(lists[2], x)
                      + Count(lists[3], x) + Count(lists[4], x) = 1
            /\ Len(lists[1]) + Len(lists[2]) + Len(lists[3]) + Len(lists[4]) = 18

C8_Witness ==
    /\ op = "immune_to"
    /\ args = <<"Ghost">>
    /\ result = <<"Normal", "Fighting">>

C10_ToLists ==
    op \in ToOps =>
        AscendingListOf(result,
            {a \in Typing : offense_multiplier(a, args[1]) = Kept(op)})

C10_Witness ==
    /\ op = "weak_to"
    /\ args = <<"Ice">>
    /\ result = <<"Fighting", "Rock", "Steel", "Fire">>
    /\ weak_against("Ice") # result

\* ------------------------------------------------------------------------
\* Conversions

\* C11: for each of the six Multiplier variants m, from_num_multiplier(m.into())
\* is Ok(m); the numeric values are Immunity = 0, DoubleResistance = 0.25,
\* Resistance = 0.5, Regular = 1, Weakness = 2, DoubleWeakness = 4, pairwise
\* distinct.
C11_RoundTrip ==
    op = "into" =>
        /\ from_num_multiplier(result) = args[1]
        /\ args[1] = Immunity => result = <<0, 1>>
        /\ args[1] = DoubleResistance => result = <<1, 4>>
        /\ args[1] = Resistance => result = <<1, 2>>
        /\ args[1] = Regular => result = <<1, 1>>
        /\ args[1] = Weakness => result = <<2, 1>>
        /\ args[1] = DoubleWeakness => result = <<4, 1>>
        /\ \A m \in Multiplier : m # args[1] => into_f32(m) # result

C11_Witness ==
    /\ op = "into"
    /\ args = <<DoubleResistance>>
    /\ result = <<1, 4>>
    /\ from_num_multiplier(result) = DoubleResistance

\* C12: from_num_multiplier returns Ok exactly for the six values 0, 0.25,
\* 0.5, 1, 2, 4; for every other value of the grid (0.125, 0.75, 3, 8, 16,
\* negative values) it returns Err(InvalidNumericMultiplierError) as a value,
\* without a panic.
C12_FromNumMultiplierDomain ==
    op = "from_num_multiplier" =>
        /\ args[1] \in Representable =>
              (result \in Multiplier /\ into_f32(result) = args[1])
        /\ args[1] \notin Representable => result = InvalidNumericMultiplierError

C12_Witness ==
    /\ op = "from_num_multiplier"
    /\ args[1] \in {<<1, 8>>, <<3, 4>>, <<3, 1>>, <<8, 1>>, <<16, 1>>, <<-1, 2>>}
    /\ result = InvalidNumericMultiplierError

\* C13: Typing::try_from(c) is Ok for exactly the codes 0..17 and
\* Err(InvalidTypingCodeError), without a panic, for every c in 18..255;
\* try_from(num_code(t)) is Ok(t) for all 18 typings and
\* num_code(try_from(c)) is c for all c in 0..17.
C13_TypingCodes ==
    /\ op = "try_from" =>
          /\ args[1] \in 0..17 =>
                (result \in Typing /\ num_code(result) = args[1])
          /\ args[1] \in 18..255 => result = InvalidTypingCodeError
    /\ op = "num_code" =>
          (result \in 0..17 /\ try_from(result) = args[1])

C13_Witness ==
    /\ op = "try_from"
    /\ args = <<255>>
    /\ result = InvalidTypingCodeError
    /\ try_from(17) = "Fairy"
    /\ num_code("Fairy") = 17

\* C14: all_typings() does not panic and returns all 18 typings, each once, in
\* ascending num_code order (element i has num_code i, counting from 0);
\* num_code(t) is the declaration ordinal of t in enum Typing (Normal = 0 ...
\* Fairy = 17), the order of the rows and columns of TYPE_MULTIPLIERS.
C14_AllTypings ==
    op = "all_typings" =>
        /\ result # PanicVec
        /\ Len(result) = 18
        /\ \A i \in DOMAIN result : num_code(result[i]) = i - 1
        /\ \A t \in Typing : Count(result, t) = 1
        /\ Len(TypingDecl) = 18
        /\ \A i \in DOMAIN TypingDecl : num_code(TypingDecl[i]) = i - 1
        /\ num_code("Normal") = 0
        /\ num_code("Fairy") = 17
        /\ TYPE_MULTIPLIERS_ROWS = TypingDecl
        /\ TYPE_MULTIPLIERS[num_code("Rock") + 1] = <<1, 2>>

C14_Witness ==
    /\ op = "all_typings"
    /\ Len(result) = 18
    /\ result[1] = "Normal"
    /\ result[18] = "Fairy"

\* x < y on numeric values
FLt(x, y) == x[1] * y[2] < y[1] * x[2]

\* C15: the ordering on Multiplier is the ordering of the numeric values: for
\* all Multipliers a, b, a < b iff value(a) < value(b), which gives the chain
\* Immunity < DoubleResistance < Resistance < Regular < Weakness <
\* DoubleWeakness.
C15_OrderIsNumericOrder ==
    op = "lt" =>
        /\ result = FLt(into_f32(args[1]), into_f32(args[2]))
        /\ args \in {<<Immunity, DoubleResistance>>, <<DoubleResistance, Resistance>>,
                     <<Resistance, Regular>>, <<Regular, Weakness>>,
                     <<Weakness, DoubleWeakness>>} => result = TRUE

C15_Witness ==
    /\ op = "lt"
    /\ args = <<Immunity, DoubleResistance>>
    /\ result = TRUE

\* C16: combine is commutative: for all 36 ordered pairs of Multipliers
\* (a, b), a * b and b * a have the same outcome.
C16_MulCommutative ==
    op = "mul" => result = mul(args[2], args[1])

C16_Witness ==
    /\ op = "mul"
    /\ args = <<DoubleWeakness, Resistance>>
    /\ result = Weakness
    /\ mul(Resistance, DoubleWeakness) = Weakness

\* ------------------------------------------------------------------------
\* Stat stages

Min(x, y) == IF x <= y THEN x ELSE y

Max(x, y) == IF x >= y THEN x ELSE y

\* C17: N6..P6 have the integer values -6..6 in declaration order, and for
\* all 169 pairs (a, b) of stages a + b is the stage of integer value
\* max(-6, min(6, int(a) + int(b))); the i8 sum does not overflow and the
\* panic!() arm is not reached, so the result is a stage in [-6, +6].
C17_SaturatingAdd ==
    op = "add" =>
        LET sum == as_i8(args[1]) + as_i8(args[2])
        IN  /\ sum \in (-128)..127
            /\ result \in StatStage
            /\ as_i8(result) = Max(-6, Min(6, sum))
            /\ \A i \in DOMAIN StatStageDecl : as_i8(StatStageDecl[i]) = i - 7
            /\ as_i8("N6") = -6 /\ as_i8("Z0") = 0 /\ as_i8("P6") = 6
            /\ args = <<"P4", "P4">> => result = "P6"
            /\ args = <<"N4", "N5">> => result = "N6"

C17_Witness ==
    /\ op = "add"
    /\ args = <<"N4", "N5">>
    /\ result = "N6"

\* a quotient that is neither an infinity nor NaN
Finite(x) == x[2] # 0

\* C18: for every stage -n with n in 1..6, normal_multiplier is 2/(2+n) (2/3
\* at -1, 2/7 at -5, 0.25 at -6) and accuracy_multiplier is 3/(3+n) (1/2 at
\* -3, 3/7 at -4, 3/9 at -6): one stage down is one more in the denominator.
C18_NegativeStageMultipliers ==
    /\ (op = "normal_multiplier" /\ as_i8(args[1]) < 0) =>
          result = Norm(<<2, 2 + (0 - as_i8(args[1]))>>)
    /\ (op = "accuracy_multiplier" /\ as_i8(args[1]) < 0) =>
          result = Norm(<<3, 3 + (0 - as_i8(args[1]))>>)

\* C19: for every one of the 13 stages the denominator normal_multiplier
\* divides by and the one accuracy_multiplier divides by are not zero, and
\* both return a finite value.
C19_NoDivisionByZero ==
    /\ op = "normal_multiplier" =>
          (normal_denom(args[1]) # 0 /\ Finite(result))
    /\ op = "accuracy_multiplier" =>
          (accuracy_denom(args[1]) # 0 /\ Finite(result))

\* C20: for every negative stage s, normal_multiplier(s) <
\* accuracy_multiplier(s) < 1 (at -6: 0.25 < 0.333 < 1).
C20_AccuracyCurveFlatter ==
    (op \in {"normal_multiplier", "accuracy_multiplier"} /\ as_i8(args[1]) < 0) =>
        LET normal == normal_multiplier(args[1])
            accuracy == accuracy_multiplier(args[1])
        IN  /\ result = (IF op = "normal_multiplier" THEN normal ELSE accuracy)
            /\ Finite(normal)
            /\ Finite(accuracy)
            /\ FLt(normal, accuracy)
            /\ FLt(accuracy, <<1, 1>>)

\* C21: for every stage s in 0..6, normal_multiplier(s) is (2+s)/2 and
\* accuracy_multiplier(s) is (3+s)/3 (3/2 at +1 and 4 at +6 for normal
\* stats); at stage 0 both are exactly 1, and the formula of the '< 0' branch
\* evaluated at 0 gives 1 as well.
C21_NonNegativeStageMultipliers ==
    /\ (op = "normal_multiplier" /\ as_i8(args[1]) >= 0) =>
          /\ result = Norm(<<2 + as_i8(args[1]), 2>>)
          /\ args = <<"P1">> => result = <<3, 2>>
          /\ args = <<"P6">> => result = <<4, 1>>
          /\ args = <<"Z0">> =>
                (result = <<1, 1>> /\ f64_div(2, 2 + as_i8("Z0")) = <<1, 1>>)
    /\ (op = "accuracy_multiplier" /\ as_i8(args[1]) >= 0) =>
          /\ result = Norm(<<3 + as_i8(args[1]), 3>>)
          /\ args = <<"Z0">> =>
                (result = <<1, 1>> /\ f64_div(3, 3 + as_i8("Z0")) = <<1, 1>>)

C21_Witness ==
    /\ op = "normal_multiplier"
    /\ args = <<"P1">>
    /\ result = <<3, 2>>

\* ------------------------------------------------------------------------
\* Species

\* the variants of a forme enum, as a set
FormeSet(type) == {FormeEnums[type][k] : k \in DOMAIN FormeEnums[type]}

\* C22: every constructible Species value carries a payload of that species'
\* own forme set: Meloetta a MeloettaForme (Aria or Pirouette) and Kyurem a
\* KyuremForme (Normal, Black, White), so that Meloetta-Black is not
\* constructible and Meloetta-Pirouette is.
C22_FormePayloads ==
    op = "has_forme" =>
        /\ args[1][1] = "Kyurem" => args[1][2] \in FormeSet("KyuremForme")
        /\ args[1][1] = "Meloetta" =>
              /\ args[1][2] \in FormeSet("MeloettaForme")
              /\ <<"Meloetta", "Pirouette">> \in SpeciesValues
              /\ <<"Meloetta", "Black">> \notin SpeciesValues

\* C23: for every Species variant s, has_forme(s) is true if and only if s is
\* declared with a forme payload: the arms of the match and the
\* payload-carrying variants are the same set.
C23_HasFormeMatchesDeclaration ==
    op = "has_forme" =>
        /\ result = (SpeciesDecl[species_index(args[1][1])][2] # NoPayload)
        /\ {HasFormeArms[i] : i \in DOMAIN HasFormeArms}
              = {SpeciesDecl[i][1] : i \in {j \in DOMAIN SpeciesDecl :
                                               SpeciesDecl[j][2] # NoPayload}}

C23_Witness ==
    /\ op = "has_forme"
    /\ args = << <<"Necrozma", "Ultra">> >>
    /\ result = TRUE

\* the 0-based ordinal of the variant called name
Ordinal(name) == discriminant(<<name, NoPayload>>)

\* C25: enum Species has exactly 807 variants, declared in National Pokedex
\* order from 0: the 0-based ordinal of a variant (SpeciesDiscriminant as u32)
\* is its dex number minus one, with Castform at 350, Poipole at 802 and
\* Zeraora last at 806.  The dex numbers the source gives are those of its
\* test and of the first species of each generation (152, 252, 387, 494, 650,
\* 722).
C25_SpeciesOrdinals ==
    op = "discriminant" =>
        /\ Len(SpeciesDecl) = 807
        /\ Cardinality({SpeciesDecl[i][1] : i \in DOMAIN SpeciesDecl}) = 807
        /\ result \in 0..806
        /\ SpeciesDecl[result + 1][1] = args[1][1]
        /\ args[1][1] = "Bulbasaur" => result = 0
        /\ args[1][1] = "Castform" => result = 350
        /\ args[1][1] = "Poipole" => result = 802
        /\ args[1][1] = "Zeraora" => result = 806
        /\ GenStarts = <<"Chikorita", "Treecko", "Turtwig", "Victini", "Chespin", "Rowlet">>
        /\ <<Ordinal(GenStarts[1]), Ordinal(GenStarts[2]), Ordinal(GenStarts[3]),
             Ordinal(GenStarts[4]), Ordinal(GenStarts[5]), Ordinal(GenStarts[6])>>
              = <<151, 251, 386, 493, 649, 721>>

C25_Witness ==
    /\ op = "discriminant"
    /\ args = << <<"Castform", "Sunny">> >>
    /\ result = 350

\* ------------------------------------------------------------------------
\* Natures

\* C24: all_natures() lists each of the 25 natures exactly once, in
\* declaration order, and every nature n of the list for which
\* has_stat_effect(n) is false has increased_stat(n) = decreased_stat(n).
C24_NeutralNatures ==
    /\ op = "all_natures" =>
          /\ result = NatureDecl
          /\ Len(result) = 25
          /\ \A i, j \in DOMAIN result : result[i] = result[j] => i = j
          /\ \A i \in DOMAIN result :
                ~has_stat_effect(result[i]) =>
                    increased_stat(result[i]) = decreased_stat(result[i])
    /\ (op = "has_stat_effect" /\ result = FALSE) =>
          increased_stat(args[1]) = decreased_stat(args[1])

C24_Witness ==
    /\ op = "has_stat_effect"
    /\ args = <<"Docile">>
    /\ result = FALSE
    /\ increased_stat("Docile") = "Def"

\* the five stats other than HP
NonHP == Stat \ {"HP"}

\* the natures that raise stat up and lower stat down
NaturesWith(up, down) ==
    {n \in Nature : increased_stat(n) = up /\ decreased_stat(n) = down}

\* C30: over the 25 natures the pair (increased_stat(n), decreased_stat(n))
\* takes each of the 25 pairs of stats other than HP exactly once and never
\* involves HP; has_stat_effect(n) is true exactly when the two stats differ,
\* and exactly 5 natures have no effect.
C30_NatureTableBijection ==
    /\ op = "increased_stat" =>
          /\ result \in NonHP
          /\ \A down \in NonHP : Cardinality(NaturesWith(result, down)) = 1
    /\ op = "decreased_stat" =>
          /\ result \in NonHP
          /\ \A up \in NonHP : Cardinality(NaturesWith(up, result)) = 1
    /\ op = "has_stat_effect" =>
          /\ result = (increased_stat(args[1]) # decreased_stat(args[1]))
          /\ Cardinality({n \in Nature : ~has_stat_effect(n)}) = 5
          /\ Cardinality(Nature) = 25
          /\ Cardinality(NonHP) = 5

C30_Witness ==
    /\ op = "decreased_stat"
    /\ args = <<"Lonely">>
    /\ result = "Def"
    /\ increased_stat("Lonely") = "Atk"
    /\ has_stat_effect("Lonely")

\* ------------------------------------------------------------------------
\* Stage formulas, three-way products and sums, duality of the queries

\* q is the f64 quotient of k by k + s: the rational k / (k + s), or +inf
\* when k + s = 0
IsQuotient(q, k, s) ==
    IF k + s = 0
    THEN q = <<1, 0>>
    ELSE /\ q[2] > 0
         /\ q[1] * (k + s) = k * q[2]

Clamped(a, b) ==
    FMul(into_f32(a), into_f32(b)) \in {<<1, 8>>, <<8, 1>>}

\* C27: clamping makes the product non-associative: (DoubleWeakness *
\* Weakness) * Resistance = Weakness while DoubleWeakness * (Weakness *
\* Resistance) = DoubleWeakness, both groupings returning a value; and two
\* groupings that both return a value differ only where a * b or b * c was
\* clamped.
C27_MulNotAssociative ==
    op = "mul_mul" =>
        /\ args = <<DoubleWeakness, Weakness, Resistance>> =>
              result = <<Weakness, DoubleWeakness>>
        /\ (result[1] # Panic /\ result[2] # Panic /\ result[1] # result[2]) =>
              (Clamped(args[1], args[2]) \/ Clamped(args[2], args[3]))

C27_Witness ==
    /\ op = "mul_mul"
    /\ args = <<DoubleWeakness, Weakness, Resistance>>
    /\ result[1] \in Multiplier
    /\ result[2] \in Multiplier
    /\ result[1] # result[2]

\* the sum of the stages a and b lies outside -6..6 and is saturated by add
Saturated(a, b) == as_i8(a) + as_i8(b) \notin (-6)..6

\* C29: stage addition is commutative with Z0 as identity, a + b = b + a and
\* a + Z0 = a for all stages a, b, but not associative: (P6 + P6) + N6 = Z0
\* while P6 + (P6 + N6) = P6, and two groupings differ only where a + b or
\* b + c was saturated.
C29_AddCommutativeNotAssociative ==
    /\ op = "add" =>
          /\ result \in StatStage
          /\ result = add(args[2], args[1])
          /\ args[2] = "Z0" => result = args[1]
          /\ args[1] = "Z0" => result = args[2]
    /\ op = "add_add" =>
          /\ args = <<"P6", "P6", "N6">> => result = <<"Z0", "P6">>
          /\ result[1] # result[2] =>
                (Saturated(args[1], args[2]) \/ Saturated(args[2], args[3]))

C29_Witness ==
    /\ op = "add_add"
    /\ args = <<"P6", "P6", "N6">>
    /\ result[1] = "Z0"
    /\ result[2] = "P6"

\* the list the query named o returns for the typing t
Query(o, t) ==
    CASE o = "weak_to" -> weak_to(t)
      [] o = "resistant_to" -> resistant_to(t)
      [] o = "neutral_to" -> neutral_to(t)
      [] o = "immune_to" -> immune_to(t)
      [] o = "weak_against" -> weak_against(t)
      [] o = "resistant_against" -> resistant_against(t)
      [] o = "neutral_against" -> neutral_against(t)
      [] o = "immune_against" -> immune_against(t)

\* the query of the other family that keeps the same Multiplier
Dual(o) ==
    CASE o = "weak_to" -> "weak_against"
      [] o = "resistant_to" -> "resistant_against"
      [] o = "neutral_to" -> "neutral_against"
      [] o = "immune_to" -> "immune_against"
      [] o = "weak_against" -> "weak_to"
      [] o = "resistant_against" -> "resistant_to"
      [] o = "neutral_against" -> "neutral_to"
      [] o = "immune_against" -> "immune_to"

Elems(seq) == {seq[i] : i \in DOMAIN seq}

====
